---- MODULE Spec2Model ----
(***************************************************************************)
(* Hardware fingerprint of a Windows instance: currentHwHash and the       *)
(* functions it calls (agent/managedInstances/fingerprint/                 *)
(* hardwareInfo_windows.go, agent/platform/wmi.go,                         *)
(* agent/platform/platform_windows.go), DetectPlatform of                  *)
(* agent/plugins/configurepackage/envdetect/osdetect/osdetect_windows.go   *)
(* ConfigureAgent of                                                       *)
(* agent/setupcli/managers/configurationmanager/helpers.go,                *)
(* getPlatformDetails of agent/platform/platform_unix.go and               *)
(* DownloadRemoteResource of                                               *)
(* agent/plugins/downloadcontent/s3resource/s3resource.go.                 *)
(*                                                                         *)
(* A Go string is modelled as a sequence of tokens, the empty string as    *)
(* << >>.  A byte sequence is a sequence of tokens too.  md5 and base64    *)
(* are modelled as injective taggings of their input (no collisions).      *)
(***************************************************************************)
EXTENDS Integers, Sequences, FiniteSets, TLC

VARIABLES
    pc,            \* position of currentHwHash
    hardwareHash,  \* the map built by currentHwHash (function key -> string)
    retErr,        \* error returned by currentHwHash: "nil" or the failing step
    attempt,       \* loop variable of waitForService
    wmiInterface,  \* strategy returned by getWMIInterface ("" before)
    hw,            \* the hardware attribute value of this machine
    numQueries,    \* calls of service.Query so far
    numQueryErrs,  \* calls of service.Query that returned an error
    numRunning,    \* calls of service.Query that returned (Running, nil)
    numSleeps,     \* calls of time.Sleep so far
    numSelect,     \* calls of getWMIInterface so far
    wmicCalls,     \* categories queried through commandOutputHash, in call order
    wqlCalls,      \* categories queried through getWMIObject, in call order
    catErr,        \* categories whose query function returned an error
    hostCalls,     \* host-identity lookups made so far
    lastCall,      \* the most recent collaborator call and what it returned
    dpc,           \* position of DetectPlatform
    wmiData,       \* the record getOSInfo returned to DetectPlatform
    wmiErr,        \* whether getOSInfo returned an error
    detected,      \* what DetectPlatform returned
    inv,           \* the local variables of each concurrent invocation
    seen,          \* the collaborator answers each concurrent invocation got
    service,       \* the state of the instrumentation service (shared)
    cfgPc,         \* position of the helper ConfigureAgent
    folderPath,    \* its argument
    cfgCalls,      \* the calls it made on the manager, with their answers
    cfgRet,        \* the error it returned ("nil" for nil)
    upc,           \* position of getPlatformDetails
    existing,      \* the release files that exist on the machine
    goos,          \* runtime.GOOS
    consulted,     \* the files read and commands run, in order, with their errors
    osName,           \* the result name of getPlatformDetails
    osVersion,        \* the result version of getPlatformDetails
    osErr,            \* the result err of getPlatformDetails ("nil" for nil)
    s3pc,             \* position of DownloadRemoteResource
    s3Key,            \* s3.s3Object.Key
    destPath,         \* destPath, after the default of line 106
    folders,          \* folders
    entry,            \* index in folders of the entry the loop is at
    isDirTypeDownloaded,
    resultFiles,      \* result.Files
    listed,           \* "ok" or "err" once dep.ListS3Directory has answered
    downloads,        \* the keys dep.Download was called for, in order
    localFile,        \* input.DestinationDirectory joined with destinationFile
    s3Ret             \* what DownloadRemoteResource returned

\* The variables of currentHwHash.
hwVars == <<pc, hardwareHash, retErr, attempt, wmiInterface, hw, numQueries,
            numQueryErrs, numRunning, numSleeps, numSelect, wmicCalls, wqlCalls, catErr,
            hostCalls, lastCall>>
\* The variables of DetectPlatform.
osdetectVars == <<dpc, wmiData, wmiErr, detected>>
\* The variables currentHwHash does not touch.
\* The variables of concurrent invocations of currentHwHash.
concVars == <<inv, seen, service>>
\* The variables of the helper ConfigureAgent.
cfgVars == <<cfgPc, folderPath, cfgCalls, cfgRet>>
\* The variables of getPlatformDetails.
unixVars ==
    <<upc, existing, goos, consulted, osName, osVersion,
      osErr>>
\* The variables of DownloadRemoteResource.
s3Vars ==
    <<s3pc, s3Key, destPath, folders, entry, isDirTypeDownloaded, resultFiles,
      listed, downloads, localFile, s3Ret>>
otherVars == <<osdetectVars, concVars, cfgVars, unixVars, s3Vars>>
\* What DetectPlatform, the concurrent invocations and the helper
\* ConfigureAgent do not touch.
notOsdetectVars == <<hwVars, concVars, cfgVars, unixVars, s3Vars>>
notConcVars == <<hwVars, osdetectVars, cfgVars, unixVars, s3Vars>>
notCfgVars == <<hwVars, osdetectVars, concVars, unixVars, s3Vars>>
notUnixVars == <<hwVars, osdetectVars, concVars, cfgVars, s3Vars>>
notS3Vars == <<hwVars, osdetectVars, concVars, cfgVars, unixVars>>

vars == <<hwVars, otherVars>>

(***************************************************************************)
(* Bounds of the model.                                                    *)
(***************************************************************************)
MaxFacts == 2
MaxRecords == 2

FactNames == <<"hwA", "hwB", "hwC", "hwD">>
Facts == {FactNames[i] : i \in 1..MaxFacts}

(***************************************************************************)
(* Constants of hardwareInfo_windows.go and platform_windows.go.           *)
(***************************************************************************)
serviceRetryInterval == 15
serviceRetry == 5
wmic == "WMIC"
wql == "WQL"
hardwareID == "uuid"
ipAddressID == "ip-address"
WindowsServer2025Version == <<10, 0, 26100>>

\* The six hardware categories, in the order currentHwHash queries them.
Categories == <<"uuid", "processor", "memory", "bios", "system", "disk">>
CategorySet == {Categories[i] : i \in 1..Len(Categories)}

\* Variant: the disk hash is stored under the key of the system hash.
CategoryKeyCopyPaste(c) ==
    CASE c = "uuid" -> hardwareID
      [] c = "processor" -> "processor-hash"
      [] c = "memory" -> "memory-hash"
      [] c = "bios" -> "bios-hash"
      [] c = "system" -> "system-hash"
      [] c = "disk" -> "system-hash"

\* Key of the map written for a category.
CategoryKey(c) ==
    CASE c = "uuid" -> hardwareID
      [] c = "processor" -> "processor-hash"
      [] c = "memory" -> "memory-hash"
      [] c = "bios" -> "bios-hash"
      [] c = "system" -> "system-hash"
      [] c = "disk" -> "disk-info"

\* Arguments of wmic.exe for a category.
WmicArgs(c) ==
    CASE c = "uuid" -> <<"csproduct", "get", "UUID">>
      [] c = "processor" -> <<"cpu", "list", "brief">>
      [] c = "memory" -> <<"memorychip", "list", "brief">>
      [] c = "bios" -> <<"bios", "list", "brief">>
      [] c = "system" -> <<"computersystem", "list", "brief">>
      [] c = "disk" -> <<"diskdrive", "list", "brief">>

\* Record type queried for a category.
WqlType(c) ==
    CASE c = "uuid" -> "Win32_ComputerSystemProduct"
      [] c = "processor" -> "Win32_Processor"
      [] c = "memory" -> "Win32_PhysicalMemory"
      [] c = "bios" -> "Win32_BIOS"
      [] c = "system" -> "Win32_ComputerSystem"
      [] c = "disk" -> "Win32_DiskDrive"

HostKeys == {"hostname-info", ipAddressID, "macaddr-info"}
HardwareKeys == {CategoryKey(c) : c \in CategorySet}

(***************************************************************************)
(* Serialization and hashing.                                              *)
(***************************************************************************)
\* Text wmic.exe prints for a category whose attribute value is v.
CommandOutput(c, v) == <<"wmic-table", WmicArgs(c)[1], v>>

\* A record of type WqlType(c); the zero value has val = "".
Record(c, v) == [type |-> WqlType(c), val |-> v]
ZeroRecord(c) == Record(c, "")

\* gob stream of a record: the type definition, then the non-zero fields
\* (gob omits fields holding their zero value).
GobEncode(rec) ==
    <<"gob-typedef", rec.type>> \o (IF rec.val = "" THEN << >> ELSE <<rec.val>>)

Md5Sum(b) == <<"md5">> \o b
Base64Encode(b) == <<"b64">> \o b

\* commandOutputHash: run the command, hash its stdout when it succeeded.
commandOutputHash(run) ==
    IF ~run.err
    THEN [encoded |-> Base64Encode(Md5Sum(run.out)), err |-> FALSE]
    ELSE [encoded |-> << >>, err |-> TRUE]

\* Variant: an empty result is reported as an error.
GetSingleWMIObjectZeroIsErr(zero, q) ==
    IF q.err \/ Len(q.data) = 0
    THEN [obj |-> zero, err |-> TRUE]
    ELSE [obj |-> q.data[1], err |-> FALSE]

\* GetSingleWMIObject: first record of the query result.
GetSingleWMIObject(zero, q) ==
    IF q.err \/ Len(q.data) = 0
    THEN [obj |-> zero, err |-> q.err]
    ELSE [obj |-> q.data[1], err |-> FALSE]

\* Variant: the parameter (a zero value) is encoded, not the fetched record.
getWMIObjectHashesParam(zero, q, encFails) ==
    LET got == GetSingleWMIObject(zero, q) IN
    IF got.err THEN [encoded |-> << >>, obj |-> got.obj, err |-> TRUE]
    ELSE IF encFails THEN [encoded |-> << >>, obj |-> got.obj, err |-> TRUE]
    ELSE [encoded |-> Base64Encode(Md5Sum(GobEncode(zero))),
          obj |-> got.obj, err |-> FALSE]

\* Variant: after an encoder error the buffer is hashed all the same.
getWMIObjectHashesOnEncodeErr(zero, q, encFails) ==
    LET got == GetSingleWMIObject(zero, q) IN
    IF got.err THEN [encoded |-> << >>, obj |-> got.obj, err |-> TRUE]
    ELSE IF encFails THEN [encoded |-> Base64Encode(Md5Sum(<< >>)),
                           obj |-> got.obj, err |-> TRUE]
    ELSE [encoded |-> Base64Encode(Md5Sum(GobEncode(got.obj))),
          obj |-> got.obj, err |-> FALSE]

\* Variant: the error of the encoder is dropped and the buffer is hashed.
getWMIObjectIgnoresEncodeErr(zero, q, encFails) ==
    LET got == GetSingleWMIObject(zero, q) IN
    IF got.err THEN [encoded |-> << >>, obj |-> got.obj, err |-> TRUE]
    ELSE IF encFails THEN [encoded |-> Base64Encode(Md5Sum(<< >>)),
                           obj |-> got.obj, err |-> FALSE]
    ELSE [encoded |-> Base64Encode(Md5Sum(GobEncode(got.obj))),
          obj |-> got.obj, err |-> FALSE]

\* getWMIObject: fetch, gob-encode, md5, base64.
getWMIObject(zero, q, encFails) ==
    LET got == GetSingleWMIObject(zero, q) IN
    IF got.err THEN [encoded |-> << >>, obj |-> got.obj, err |-> TRUE]
    ELSE IF encFails THEN [encoded |-> << >>, obj |-> got.obj, err |-> TRUE]
    ELSE [encoded |-> Base64Encode(Md5Sum(GobEncode(got.obj))),
          obj |-> got.obj, err |-> FALSE]

(***************************************************************************)
(* Platform version and strategy selection.                                *)
(* A version string is a sequence of its dot-separated components; a       *)
(* component that is not a number is modelled as -1.                        *)
(***************************************************************************)
notAvailableMessage == <<-1>>

ValidVersion(v) == \A i \in 1..Len(v) : v[i] >= 0

RECURSIVE CompareComponents(_, _)
CompareComponents(l, r) ==
    IF l = << >> /\ r = << >> THEN 0
    ELSE IF l = << >> THEN -1
    ELSE IF r = << >> THEN 1
    ELSE IF Head(l) < Head(r) THEN -1
    ELSE IF Head(l) > Head(r) THEN 1
    ELSE CompareComponents(Tail(l), Tail(r))

\* versionutil.VersionCompare: dotted-version ordering, an error for a
\* version that is not made of numbers.
VersionCompare(l, r) ==
    IF ~ValidVersion(l) \/ ~ValidVersion(r)
    THEN [result |-> 0, err |-> TRUE]
    ELSE [result |-> CompareComponents(l, r), err |-> FALSE]

\* The characters of a version string, as character codes ('.' is 46,
\* '0' is 48).
RECURSIVE Digits(_)
Digits(n) ==
    IF n < 10 THEN <<48 + n>> ELSE Digits(n \div 10) \o <<48 + (n % 10)>>

RECURSIVE VersionString(_)
VersionString(v) ==
    IF v = << >> THEN << >>
    ELSE IF Len(v) = 1 THEN Digits(v[1])
    ELSE Digits(v[1]) \o <<46>> \o VersionString(Tail(v))

\* Variant: the version strings are compared as strings.
isWindowsServer2025OrLaterAsStrings(platformVersion) ==
    IF ~ValidVersion(platformVersion) THEN [value |-> FALSE, err |-> TRUE]
    ELSE [value |-> CompareComponents(VersionString(platformVersion),
                                      VersionString(WindowsServer2025Version)) >= 0,
          err |-> FALSE]

\* Variant: only versions after the threshold count.
isWindowsServer2025OrLaterStrict(platformVersion) ==
    LET cmp == VersionCompare(platformVersion, WindowsServer2025Version) IN
    IF cmp.err THEN [value |-> FALSE, err |-> TRUE]
    ELSE [value |-> cmp.result > 0, err |-> FALSE]

isWindowsServer2025OrLater(platformVersion) ==
    LET cmp == VersionCompare(platformVersion, WindowsServer2025Version) IN
    IF cmp.err THEN [value |-> FALSE, err |-> TRUE]
    ELSE [value |-> cmp.result >= 0, err |-> FALSE]

\* ver is what getPlatformVersionRef returned: [version, err].
isPlatformWindowsServer2025OrLater(ver) ==
    IF ver.err THEN [value |-> FALSE, err |-> TRUE]
    ELSE isWindowsServer2025OrLater(ver.version)

getWMIInterface(ver) ==
    LET r == isPlatformWindowsServer2025OrLater(ver) IN
    IF r.err THEN wmic
    ELSE IF r.value THEN wql
    ELSE wmic

(***************************************************************************)
(* What the collaborators can answer.                                      *)
(***************************************************************************)
\* service.Query(): an error flag and the state of the service.
ServiceStates == {"Running", "StartPending", "Stopped"}
StatusAnswers == [err : BOOLEAN, state : ServiceStates]

\* getPlatformVersionRef(): a version string and an error flag.
ThreePartVersions ==
    { <<a, b, c>> : a \in {9, 10, 11}, b \in {0, 1, 9},
                    c \in {0, 9999, 19041, 26099, 26100, 26101, 99999, 100000} }
PlatformVersions ==
    { <<10, 0, 26100>>, <<10, 0, 26101>>, <<10, 0, 19041>>, <<10, 0, 9999>>,
      <<9, 9, 99999>>, <<11, 0, 0>>, <<6, 3, 9600>>, <<10, 0>>,
      <<10, 0, 26100, 1>>, << >>, notAvailableMessage, <<10, -1, 26100>> }
    \cup ThreePartVersions
VersionAnswers == [version : PlatformVersions, err : BOOLEAN]

\* exec.Command(wmicCommand, args...).Output() for category c.
RunAnswers(c) ==
    { [err |-> FALSE, out |-> CommandOutput(c, hw)],
      [err |-> TRUE, out |-> << >>],
      [err |-> TRUE, out |-> CommandOutput(c, hw)] }

\* wmi.Query for category c: an error, or 0..MaxRecords records of which
\* the first describes this machine.
QueryData(c, n) == [i \in 1..n |-> IF i = 1 THEN Record(c, hw) ELSE Record(c, "other")]
QueryAnswers(c) ==
    { [err |-> TRUE, data |-> << >>] } \cup
    { [err |-> FALSE, data |-> QueryData(c, n)] : n \in 0..MaxRecords }

\* hostnameInfo(), primaryIpInfo(), macAddrInfo(): a value or an error.
HostValue(k) ==
    CASE k = "hostname-info" -> <<"host1">>
      [] k = ipAddressID -> <<"10.0.0.5">>
      [] k = "macaddr-info" -> <<"aa:bb:cc:dd:ee:ff">>
HostAnswers(k) == { [value |-> HostValue(k), err |-> FALSE],
                    [value |-> << >>, err |-> TRUE] }

(***************************************************************************)
(* The per-category query functions: a switch on the interface.            *)
(***************************************************************************)
NoHash == [encoded |-> << >>, err |-> FALSE]

\* Variant: under WQL the UUID field of the record is returned.
csproductUuidReturnsRaw(iface, run, q, encFails) ==
    CASE iface = wmic -> commandOutputHash(run)
      [] iface = wql ->
           LET r == getWMIObject(ZeroRecord("uuid"), q, encFails) IN
           [encoded |-> IF r.obj.val = "" THEN << >> ELSE <<r.obj.val>>, err |-> r.err]
      [] OTHER -> NoHash

csproductUuid(iface, run, q, encFails) ==
    CASE iface = wmic -> commandOutputHash(run)
      [] iface = wql ->
           LET r == getWMIObject(ZeroRecord("uuid"), q, encFails) IN
           [encoded |-> r.encoded, err |-> r.err]
      [] OTHER -> NoHash

processorInfoHash(iface, run, q, encFails) ==
    CASE iface = wmic -> commandOutputHash(run)
      [] iface = wql ->
           LET r == getWMIObject(ZeroRecord("processor"), q, encFails) IN
           [encoded |-> r.encoded, err |-> r.err]
      [] OTHER -> NoHash

memoryInfoHash(iface, run, q, encFails) ==
    CASE iface = wmic -> commandOutputHash(run)
      [] iface = wql ->
           LET r == getWMIObject(ZeroRecord("memory"), q, encFails) IN
           [encoded |-> r.encoded, err |-> r.err]
      [] OTHER -> NoHash

biosInfoHash(iface, run, q, encFails) ==
    CASE iface = wmic -> commandOutputHash(run)
      [] iface = wql ->
           LET r == getWMIObject(ZeroRecord("bios"), q, encFails) IN
           [encoded |-> r.encoded, err |-> r.err]
      [] OTHER -> NoHash

systemInfoHash(iface, run, q, encFails) ==
    CASE iface = wmic -> commandOutputHash(run)
      [] iface = wql ->
           LET r == getWMIObject(ZeroRecord("system"), q, encFails) IN
           [encoded |-> r.encoded, err |-> r.err]
      [] OTHER -> NoHash

diskInfoHash(iface, run, q, encFails) ==
    CASE iface = wmic -> commandOutputHash(run)
      [] iface = wql ->
           LET r == getWMIObject(ZeroRecord("disk"), q, encFails) IN
           [encoded |-> r.encoded, err |-> r.err]
      [] OTHER -> NoHash

\* What the collaborator of a category query did, for lastCall.
QueryOutcome(iface, run, q, encFails) ==
    IF iface = wmic
    THEN (IF run.err THEN "execErr" ELSE "ok")
    ELSE IF q.err THEN "queryErr"
    ELSE IF encFails THEN "encErr"
    ELSE IF Len(q.data) = 0 THEN "zero"
    ELSE "ok"

(***************************************************************************)
(* currentHwHash, one action per call it makes.                            *)
(***************************************************************************)
\* hardwareHash[k] = v
Put(m, k, v) == [x \in DOMAIN m \cup {k} |-> IF x = k THEN v ELSE m[x]]
EmptyMap == [x \in {} |-> << >>]

\* DetectPlatform has not been called.
NoDetect == [platform |-> << >>, version |-> << >>, family |-> << >>, err |-> FALSE]
Win32_OperatingSystem(version, sku) == [Version |-> version, OperatingSystemSKU |-> sku]
OsdetectIdle ==
    /\ dpc = "idle"
    /\ wmiData = Win32_OperatingSystem(<< >>, 0)
    /\ wmiErr = FALSE
    /\ detected = NoDetect
\* The callers of concurrent invocations.
Invocations == {"a", "b"}
\* The local variables of currentHwHash when it is called.
Locals ==
    [pc |-> "connect", hardwareHash |-> EmptyMap, retErr |-> "nil",
     attempt |-> 0, wmiInterface |-> ""]
NothingSeen ==
    [connectErr |-> FALSE, openErr |-> FALSE, running |-> FALSE,
     version |-> << >>, versionErr |-> FALSE, failed |-> {}]
ConcIdle ==
    /\ inv = [i \in Invocations |-> Locals]
    /\ seen = [i \in Invocations |-> NothingSeen]
    /\ service = "Running"
\* The helper ConfigureAgent has not been called.
CfgIdle ==
    /\ cfgPc = "idle"
    /\ folderPath = << >>
    /\ cfgCalls = << >>
    /\ cfgRet = "nil"
\* getPlatformDetails has not been called.
UnixIdle ==
    /\ upc = "idle"
    /\ existing = {}
    /\ goos = "linux"
    /\ consulted = << >>
    /\ osName = << >>
    /\ osVersion = << >>
    /\ osErr = "nil"
\* What DownloadRemoteResource returns: err, and result or nil.
DownloadReturn(e, isNil, fs) == [err |-> e, resultIsNil |-> isNil, Files |-> fs]

\* DownloadRemoteResource has not been called.
S3Idle ==
    /\ s3pc = "idle"
    /\ s3Key = << >>
    /\ destPath = << >>
    /\ folders = << >>
    /\ entry = 1
    /\ isDirTypeDownloaded = TRUE
    /\ resultFiles = << >>
    /\ listed = "no"
    /\ downloads = << >>
    /\ localFile = << >>
    /\ s3Ret = DownloadReturn("nil", TRUE, << >>)
OtherIdle == OsdetectIdle /\ ConcIdle /\ CfgIdle /\ UnixIdle /\ S3Idle

NoCall == [op |-> "none", err |-> FALSE, res |-> "", version |-> << >>]
Call(op, err, res) == [op |-> op, err |-> err, res |-> res, version |-> << >>]

Init ==
    /\ pc = "connect"
    /\ hardwareHash = EmptyMap
    /\ retErr = "nil"
    /\ attempt = 0
    /\ wmiInterface = ""
    /\ hw \in Facts
    /\ numQueries = 0
    /\ numQueryErrs = 0
    /\ numRunning = 0
    /\ numSleeps = 0
    /\ numSelect = 0
    /\ wmicCalls = << >>
    /\ wqlCalls = << >>
    /\ catErr = {}
    /\ hostCalls = {}
    /\ lastCall = NoCall
    /\ OtherIdle

\* currentHwHash of the single invocation is not running.
HwIdle ==
    /\ pc = "connect"
    /\ hardwareHash = EmptyMap
    /\ retErr = "nil"
    /\ attempt = 0
    /\ wmiInterface = ""
    /\ hw = FactNames[1]
    /\ numQueries = 0
    /\ numQueryErrs = 0
    /\ numRunning = 0
    /\ numSleeps = 0
    /\ numSelect = 0
    /\ wmicCalls = << >>
    /\ wqlCalls = << >>
    /\ catErr = {}
    /\ hostCalls = {}
    /\ lastCall = NoCall

\* mgr.Connect(); on error return (hardwareHash, err).
Connect ==
    /\ pc = "connect"
    /\ \E err \in BOOLEAN :
         /\ pc' = IF err THEN "failed" ELSE "open"
         /\ retErr' = IF err THEN "connect" ELSE retErr
         /\ lastCall' = Call("Connect", err, "")
    /\ UNCHANGED otherVars
    /\ UNCHANGED <<hardwareHash, attempt, wmiInterface, hw, numQueries,
                   numQueryErrs, numRunning, numSleeps, numSelect, wmicCalls, wqlCalls,
                   catErr, hostCalls>>

\* Variant: the error of OpenService is logged and the wait starts anyway.
OpenServiceIgnoresErr ==
    /\ pc = "open"
    /\ \E err \in BOOLEAN :
         /\ pc' = "query"
         /\ attempt' = 1
         /\ lastCall' = Call("OpenService", err, "")
    /\ UNCHANGED otherVars
    /\ UNCHANGED <<hardwareHash, retErr, wmiInterface, hw, numQueries, numQueryErrs,
                   numRunning, numSleeps, numSelect, wmicCalls, wqlCalls, catErr, hostCalls>>

\* winManager.OpenService(wmiServiceName); on error return (hardwareHash, err).
\* On success waitForService starts with attempt := 1.
OpenService ==
    /\ pc = "open"
    /\ \E err \in BOOLEAN :
         /\ pc' = IF err THEN "failed" ELSE "query"
         /\ retErr' = IF err THEN "open" ELSE retErr
         /\ attempt' = IF err THEN attempt ELSE 1
         /\ lastCall' = Call("OpenService", err, "")
    /\ UNCHANGED otherVars
    /\ UNCHANGED <<hardwareHash, wmiInterface, hw, numQueries, numQueryErrs,
                   numRunning, numSleeps, numSelect, wmicCalls, wqlCalls, catErr, hostCalls>>

\* Variant: the state is read without looking at the error.
IsRunningIgnoresErr(ans) == ans.state = "Running"

\* The test of waitForService that ends the wait.
IsRunning(ans) == ~ans.err /\ ans.state = "Running"

\* Variant: a query error ends the wait with the timeout error.
ServiceQueryErrFatal ==
    /\ pc = "query"
    /\ attempt <= serviceRetry
    /\ \E ans \in StatusAnswers :
         /\ numQueries' = numQueries + 1
         /\ numQueryErrs' = IF ans.err THEN numQueryErrs + 1 ELSE numQueryErrs
         /\ numRunning' = IF ~ans.err /\ ans.state = "Running"
                           THEN numRunning + 1 ELSE numRunning
         /\ pc' = IF ans.err THEN "failed"
                  ELSE IF IsRunning(ans) THEN "select" ELSE "sleep"
         /\ retErr' = IF ans.err THEN "wait" ELSE retErr
         /\ lastCall' = Call("Query", ans.err, ans.state)
    /\ UNCHANGED otherVars
    /\ UNCHANGED <<hardwareHash, attempt, wmiInterface, hw, numSleeps,
                   numSelect, wmicCalls, wqlCalls, catErr, hostCalls>>

\* waitForService: status, err = service.Query(); return nil when running.
ServiceQuery ==
    /\ pc = "query"
    /\ attempt <= serviceRetry
    /\ \E ans \in StatusAnswers :
         /\ numQueries' = numQueries + 1
         /\ numQueryErrs' = IF ans.err THEN numQueryErrs + 1 ELSE numQueryErrs
         /\ numRunning' = IF ~ans.err /\ ans.state = "Running"
                           THEN numRunning + 1 ELSE numRunning
         /\ pc' = IF IsRunning(ans) THEN "select" ELSE "sleep"
         /\ lastCall' = Call("Query", ans.err, ans.state)
    /\ UNCHANGED otherVars
    /\ UNCHANGED <<hardwareHash, retErr, attempt, wmiInterface, hw, numSleeps,
                   numSelect, wmicCalls, wqlCalls, catErr, hostCalls>>

\* Variant: the loop stops one attempt early.
RetryLeftStrict(a) == a < serviceRetry

\* Variant: the loop has no bound on the attempts.
RetryLeftAlways(a) == TRUE

\* The loop condition of waitForService.
RetryLeft(a) == a <= serviceRetry

\* Variant: no sleep after the last attempt.
SleepSkipsLast ==
    /\ pc = "sleep"
    /\ numSleeps' = IF RetryLeft(attempt + 1) THEN numSleeps + 1 ELSE numSleeps
    /\ attempt' = attempt + 1
    /\ pc' = IF RetryLeft(attempt + 1) THEN "query" ELSE "failed"
    /\ retErr' = IF RetryLeft(attempt + 1) THEN retErr ELSE "wait"
    /\ UNCHANGED otherVars
    /\ UNCHANGED <<hardwareHash, wmiInterface, hw, numQueries, numQueryErrs,
                   numRunning, numSelect, wmicCalls, wqlCalls, catErr,
                   hostCalls, lastCall>>

\* waitForService: time.Sleep, attempt++, and when the loop ends the timeout
\* error, which currentHwHash returns with the map.
Sleep ==
    /\ pc = "sleep"
    /\ numSleeps' = numSleeps + 1
    /\ attempt' = attempt + 1
    /\ pc' = IF RetryLeft(attempt + 1) THEN "query" ELSE "failed"
    /\ retErr' = IF RetryLeft(attempt + 1) THEN retErr ELSE "wait"
    /\ UNCHANGED otherVars
    /\ UNCHANGED <<hardwareHash, wmiInterface, hw, numQueries, numQueryErrs,
                   numRunning, numSelect, wmicCalls, wqlCalls, catErr,
                   hostCalls, lastCall>>

\* wmiInterface := getWMIInterface(log)
GetWMIInterface ==
    /\ pc = "select"
    /\ \E ver \in VersionAnswers :
         /\ wmiInterface' = getWMIInterface(ver)
         /\ lastCall' = [op |-> "getPlatformVersion", err |-> ver.err,
                         res |-> "", version |-> ver.version]
    /\ numSelect' = numSelect + 1
    /\ pc' = "uuid"
    /\ UNCHANGED otherVars
    /\ UNCHANGED <<hardwareHash, retErr, attempt, hw, numQueries, numQueryErrs,
                   numRunning, numSleeps, wmicCalls, wqlCalls, catErr, hostCalls>>

HashOf(c, iface, run, q, encFails) ==
    CASE c = "uuid" -> csproductUuid(iface, run, q, encFails)
      [] c = "processor" -> processorInfoHash(iface, run, q, encFails)
      [] c = "memory" -> memoryInfoHash(iface, run, q, encFails)
      [] c = "bios" -> biosInfoHash(iface, run, q, encFails)
      [] c = "system" -> systemInfoHash(iface, run, q, encFails)
      [] c = "disk" -> diskInfoHash(iface, run, q, encFails)

\* Variant: the disk query does not use the selected interface.
InterfaceForMixed(c) == IF c = "disk" THEN wmic ELSE wmiInterface

\* The interface argument currentHwHash passes to the function of category c.
InterfaceFor(c) == wmiInterface

\* hardwareHash[key], _ = <category function>(log, wmiInterface)
QueryCategory(c, here, next) ==
    /\ pc = here
    /\ \E run \in RunAnswers(c), q \in QueryAnswers(c), encFails \in BOOLEAN :
         LET r == HashOf(c, InterfaceFor(c), run, q, encFails) IN
         /\ hardwareHash' = Put(hardwareHash, CategoryKey(c), r.encoded)
         /\ catErr' = IF r.err THEN catErr \cup {c} ELSE catErr
         /\ lastCall' = Call(c, r.err, QueryOutcome(InterfaceFor(c), run, q, encFails))
    /\ wmicCalls' = IF InterfaceFor(c) = wmic THEN Append(wmicCalls, c) ELSE wmicCalls
    /\ wqlCalls' = IF InterfaceFor(c) = wql THEN Append(wqlCalls, c) ELSE wqlCalls
    /\ pc' = next
    /\ UNCHANGED otherVars
    /\ UNCHANGED <<retErr, attempt, wmiInterface, hw, numQueries, numQueryErrs,
                   numRunning, numSleeps, numSelect, hostCalls>>

\* hardwareHash[key], _ = <host identity lookup>()
HostLookup(k, here, next) ==
    /\ pc = here
    /\ \E a \in HostAnswers(k) :
         /\ hardwareHash' = Put(hardwareHash, k, a.value)
         /\ lastCall' = Call(k, a.err, "")
    /\ hostCalls' = hostCalls \cup {k}
    /\ pc' = next
    /\ UNCHANGED otherVars
    /\ UNCHANGED <<retErr, attempt, wmiInterface, hw, numQueries, numQueryErrs,
                   numRunning, numSleeps, numSelect, wmicCalls, wqlCalls, catErr>>

\* Variant of a category statement: an error of the category function is
\* returned to the caller of currentHwHash.
QueryCategoryReturnsErr(c, here, next) ==
    /\ pc = here
    /\ \E run \in RunAnswers(c), q \in QueryAnswers(c), encFails \in BOOLEAN :
         LET r == HashOf(c, InterfaceFor(c), run, q, encFails) IN
         /\ hardwareHash' = Put(hardwareHash, CategoryKey(c), r.encoded)
         /\ catErr' = IF r.err THEN catErr \cup {c} ELSE catErr
         /\ lastCall' = Call(c, r.err, QueryOutcome(InterfaceFor(c), run, q, encFails))
         /\ pc' = IF r.err THEN "failed" ELSE next
         /\ retErr' = IF r.err THEN c ELSE retErr
    /\ wmicCalls' = IF InterfaceFor(c) = wmic THEN Append(wmicCalls, c) ELSE wmicCalls
    /\ wqlCalls' = IF InterfaceFor(c) = wql THEN Append(wqlCalls, c) ELSE wqlCalls
    /\ UNCHANGED otherVars
    /\ UNCHANGED <<attempt, wmiInterface, hw, numQueries, numQueryErrs,
                   numRunning, numSleeps, numSelect, hostCalls>>

\* Variant of a category statement: after an error the remaining statements
\* are skipped and the map is returned as it is.
QueryCategorySkipsRest(c, here, next) ==
    /\ pc = here
    /\ \E run \in RunAnswers(c), q \in QueryAnswers(c), encFails \in BOOLEAN :
         LET r == HashOf(c, InterfaceFor(c), run, q, encFails) IN
         /\ hardwareHash' = Put(hardwareHash, CategoryKey(c), r.encoded)
         /\ catErr' = IF r.err THEN catErr \cup {c} ELSE catErr
         /\ lastCall' = Call(c, r.err, QueryOutcome(InterfaceFor(c), run, q, encFails))
         /\ pc' = IF r.err THEN "done" ELSE next
    /\ wmicCalls' = IF InterfaceFor(c) = wmic THEN Append(wmicCalls, c) ELSE wmicCalls
    /\ wqlCalls' = IF InterfaceFor(c) = wql THEN Append(wqlCalls, c) ELSE wqlCalls
    /\ UNCHANGED otherVars
    /\ UNCHANGED <<retErr, attempt, wmiInterface, hw, numQueries, numQueryErrs,
                   numRunning, numSleeps, numSelect, hostCalls>>

\* Variant of a category statement: a failed query is made once more.
QueryCategoryRetries(c, here, next) ==
    /\ pc = here
    /\ \E run \in RunAnswers(c), q \in QueryAnswers(c), encFails \in BOOLEAN :
         LET r == HashOf(c, InterfaceFor(c), run, q, encFails) IN
         /\ hardwareHash' = Put(hardwareHash, CategoryKey(c), r.encoded)
         /\ catErr' = IF r.err THEN catErr \cup {c} ELSE catErr
         /\ lastCall' = Call(c, r.err, QueryOutcome(InterfaceFor(c), run, q, encFails))
         /\ pc' = IF r.err /\ c \notin catErr THEN here ELSE next
    /\ wmicCalls' = IF InterfaceFor(c) = wmic THEN Append(wmicCalls, c) ELSE wmicCalls
    /\ wqlCalls' = IF InterfaceFor(c) = wql THEN Append(wqlCalls, c) ELSE wqlCalls
    /\ UNCHANGED otherVars
    /\ UNCHANGED <<retErr, attempt, wmiInterface, hw, numQueries, numQueryErrs,
                   numRunning, numSleeps, numSelect, hostCalls>>

DiskInfoHashReturnsErr == QueryCategoryReturnsErr("disk", "disk", "done")
BiosInfoHashRetries == QueryCategoryRetries("bios", "bios", "system")
ProcessorInfoHashReturnsErr == QueryCategoryReturnsErr("processor", "processor", "memory")
MemoryInfoHashSkipsRest == QueryCategorySkipsRest("memory", "memory", "bios")

\* Variant: the second statement queries the memory category.
ProcessorInfoHashQueriesMemory == QueryCategory("memory", "processor", "memory")

CsproductUuid == QueryCategory("uuid", "uuid", "processor")
ProcessorInfoHash == QueryCategory("processor", "processor", "memory")
MemoryInfoHash == QueryCategory("memory", "memory", "bios")
BiosInfoHash == QueryCategory("bios", "bios", "system")
SystemInfoHash == QueryCategory("system", "system", "hostname")
\* Variant: the host name is stored under the key of the IP address.
HostnameInfoWrongKey == HostLookup(ipAddressID, "hostname", "ip")
HostnameInfo == HostLookup("hostname-info", "hostname", "ip")
PrimaryIpInfo == HostLookup(ipAddressID, "ip", "mac")
MacAddrInfo == HostLookup("macaddr-info", "mac", "disk")
\* the last statement before return hardwareHash, nil
DiskInfoHash == QueryCategory("disk", "disk", "done")

Next ==
    \/ Connect
    \/ OpenService
    \/ ServiceQuery
    \/ Sleep
    \/ GetWMIInterface
    \/ CsproductUuid
    \/ ProcessorInfoHash
    \/ MemoryInfoHash
    \/ BiosInfoHash
    \/ SystemInfoHash
    \/ HostnameInfo
    \/ PrimaryIpInfo
    \/ MacAddrInfo
    \/ DiskInfoHash

Spec == Init /\ [][Next]_vars

\* Every collaborator call and every sleep returns: a statement that can
\* run does run.
FairSpec == Init /\ [][Next]_vars /\ WF_vars(Next)

(***************************************************************************)
(* DetectPlatform (osdetect_windows.go).  The strings it handles are       *)
(* sequences of characters, so that appending a suffix is concatenation.   *)
(* The constants of package envdetect/constants carry the values of the    *)
(* Windows product types (143, 144) and the platform name "windows".       *)
(***************************************************************************)
SKUProductDatacenterNanoServer == 143
SKUProductStandardNanoServer == 144
PlatformWindows == <<"w", "i", "n", "d", "o", "w", "s">>
PlatformFamilyWindows == <<"w", "i", "n", "d", "o", "w", "s">>

\* The Version strings and the SKU numbers getOSInfo answers with.
OSVersions ==
    {<< >>, <<"1", "0">>, <<"6", ".", "3">>, <<"1", "0", ".", "0">>,
     <<"1", "0", "n", "a", "n", "o">>, <<"n", "a", "n", "o">>}
OSSKUs == {0, 7, 100, 143, 144, 145}
\* getOSInfo returns a record and an error; a stub may return both.
OSInfoAnswers ==
    {[data |-> Win32_OperatingSystem(v, sku), err |-> e] :
        v \in OSVersions, sku \in OSSKUs, e \in BOOLEAN}

\* Variant: only the standard Nano Server SKU is recognised.
isWindowsNanoStandardOnly(operatingSystemSKU) ==
    operatingSystemSKU = SKUProductStandardNanoServer

isWindowsNano(operatingSystemSKU) ==
    \/ operatingSystemSKU = SKUProductStandardNanoServer
    \/ operatingSystemSKU = SKUProductDatacenterNanoServer

\* fmt.Sprint(version, "nano"): both operands are strings, no space is added.
SprintNano(version) == version \o <<"n", "a", "n", "o">>

\* The four values DetectPlatform returns for an answer of getOSInfo.
DetectPlatform(data, err) ==
    IF err
    THEN [platform |-> PlatformWindows, version |-> << >>,
          family |-> PlatformFamilyWindows, err |-> FALSE]
    ELSE [platform |-> PlatformWindows,
          version |-> IF isWindowsNano(data.OperatingSystemSKU)
                      THEN SprintNano(data.Version) ELSE data.Version,
          family |-> PlatformFamilyWindows, err |-> FALSE]

\* The stub of getOSInfo is set up with its answer.
InitDetect ==
    /\ HwIdle
    /\ ConcIdle
    /\ CfgIdle
    /\ UnixIdle
    /\ S3Idle
    /\ dpc = "call"
    /\ \E a \in OSInfoAnswers : wmiData = a.data /\ wmiErr = a.err
    /\ detected = NoDetect

\* platform, version, platformFamily, err := DetectPlatform(log)
DetectPlatformCall ==
    /\ dpc = "call"
    /\ detected' = DetectPlatform(wmiData, wmiErr)
    /\ dpc' = "returned"
    /\ UNCHANGED <<wmiData, wmiErr>>
    /\ UNCHANGED notOsdetectVars

NextDetect == DetectPlatformCall

SpecDetect == InitDetect /\ [][NextDetect]_vars

(***************************************************************************)
(* Concurrent invocations of currentHwHash.  Every invocation has its own  *)
(* local variables (log, hardwareHash, winManager, wmiService, err,        *)
(* wmiInterface, attempt); the callers share the instrumentation service   *)
(* and the machine.  Each statement is one step, steps of the callers      *)
(* interleave, and the service changes state at any time.  attempt, the    *)
(* loop variable of waitForService, is 0 outside waitForService.           *)
(***************************************************************************)
\* The statements of currentHwHash after getWMIInterface, in order.
Statements ==
    <<"uuid", "processor", "memory", "bios", "system", "hostname", "ip",
      "mac", "disk", "done">>
StatementAfter(p) == Statements[(CHOOSE n \in 1..Len(Statements) : Statements[n] = p) + 1]
\* The host-identity key a statement writes.
HostKeyAt(p) ==
    CASE p = "hostname" -> "hostname-info"
      [] p = "ip" -> ipAddressID
      [] p = "mac" -> "macaddr-info"

\* The statements whose collaborator fails in some runs, and the versions
\* the platform reports.
ConcFallible == {"uuid", "memory", "hostname", "disk"}
ConcVersionAnswers ==
    {[version |-> <<10, 0, 26100>>, err |-> FALSE],
     [version |-> <<10, 0, 19041>>, err |-> FALSE],
     [version |-> <<10, 0, 26100>>, err |-> TRUE]}
\* What the collaborators answer to the query of category c.
ConcAnswer(c, fails) ==
    IF fails
    THEN [run |-> [err |-> TRUE, out |-> << >>], q |-> [err |-> TRUE, data |-> << >>]]
    ELSE [run |-> [err |-> FALSE, out |-> CommandOutput(c, hw)],
          q |-> [err |-> FALSE, data |-> QueryData(c, 1)]]

\* Variant: the map is a package-level variable, made once.
MapOfShared(i) == "a"

\* hardwareHash := make(map[string]string): the map invocation i writes.
MapOf(i) == i

\* The service is started, stopped or restarted by the system.
ServiceChanges ==
    /\ service' \in ServiceStates \ {service}
    /\ UNCHANGED <<inv, seen>>
    /\ UNCHANGED notConcVars

InvConnect(i) ==
    /\ inv[i].pc = "connect"
    /\ \E err \in BOOLEAN :
         /\ inv' = [inv EXCEPT ![i].pc = IF err THEN "failed" ELSE "open",
                               ![i].retErr = IF err THEN "connect" ELSE @]
         /\ seen' = [seen EXCEPT ![i].connectErr = err]
    /\ UNCHANGED service
    /\ UNCHANGED notConcVars

InvOpenService(i) ==
    /\ inv[i].pc = "open"
    /\ \E err \in BOOLEAN :
         /\ inv' = [inv EXCEPT ![i].pc = IF err THEN "failed" ELSE "query",
                               ![i].retErr = IF err THEN "open" ELSE @,
                               ![i].attempt = IF err THEN @ ELSE 1]
         /\ seen' = [seen EXCEPT ![i].openErr = err]
    /\ UNCHANGED service
    /\ UNCHANGED notConcVars

\* service.Query() answers with the state the service is in now.
InvServiceQuery(i) ==
    /\ inv[i].pc = "query"
    /\ inv[i].attempt <= serviceRetry
    /\ \E ans \in {a \in StatusAnswers : a.state = service} :
         /\ inv' = [inv EXCEPT ![i].pc = IF IsRunning(ans) THEN "select" ELSE "sleep",
                               ![i].attempt = IF IsRunning(ans) THEN 0 ELSE @]
         /\ seen' = [seen EXCEPT ![i].running = ~ans.err /\ ans.state = "Running"]
    /\ UNCHANGED service
    /\ UNCHANGED notConcVars

InvSleep(i) ==
    /\ inv[i].pc = "sleep"
    /\ inv' = [inv EXCEPT ![i].attempt = IF RetryLeft(@ + 1) THEN @ + 1 ELSE 0,
                          ![i].pc = IF RetryLeft(inv[i].attempt + 1)
                                    THEN "query" ELSE "failed",
                          ![i].retErr = IF RetryLeft(inv[i].attempt + 1)
                                        THEN @ ELSE "wait"]
    /\ UNCHANGED <<seen, service>>
    /\ UNCHANGED notConcVars

InvGetWMIInterface(i) ==
    /\ inv[i].pc = "select"
    /\ \E ver \in ConcVersionAnswers :
         /\ inv' = [inv EXCEPT ![i].wmiInterface = getWMIInterface(ver),
                               ![i].pc = "uuid"]
         /\ seen' = [seen EXCEPT ![i].version = ver.version,
                                 ![i].versionErr = ver.err]
    /\ UNCHANGED service
    /\ UNCHANGED notConcVars

InvQueryCategory(i) ==
    /\ inv[i].pc \in CategorySet
    /\ \E fails \in (IF inv[i].pc \in ConcFallible THEN BOOLEAN ELSE {FALSE}) :
         LET c == inv[i].pc
             a == ConcAnswer(c, fails)
             r == HashOf(c, inv[i].wmiInterface, a.run, a.q, FALSE) IN
         /\ inv' = [inv EXCEPT ![MapOf(i)].hardwareHash = Put(@, CategoryKey(c), r.encoded),
                               ![i].pc = StatementAfter(c)]
         /\ seen' = [seen EXCEPT ![i].failed = IF fails THEN @ \cup {c} ELSE @]
    /\ UNCHANGED service
    /\ UNCHANGED notConcVars

InvHostLookup(i) ==
    /\ inv[i].pc \in {"hostname", "ip", "mac"}
    /\ \E a \in (IF inv[i].pc \in ConcFallible
                  THEN HostAnswers(HostKeyAt(inv[i].pc))
                  ELSE {x \in HostAnswers(HostKeyAt(inv[i].pc)) : ~x.err}) :
         /\ inv' = [inv EXCEPT ![MapOf(i)].hardwareHash = Put(@, HostKeyAt(inv[i].pc), a.value),
                               ![i].pc = StatementAfter(inv[i].pc)]
         /\ seen' = [seen EXCEPT ![i].failed = IF a.err THEN @ \cup {inv[i].pc} ELSE @]
    /\ UNCHANGED service
    /\ UNCHANGED notConcVars

InitConc ==
    /\ HwIdle
    /\ OsdetectIdle
    /\ CfgIdle
    /\ UnixIdle
    /\ S3Idle
    /\ inv = [i \in Invocations |-> Locals]
    /\ seen = [i \in Invocations |-> NothingSeen]
    /\ service \in ServiceStates

NextConc ==
    \/ ServiceChanges
    \/ \E i \in Invocations :
          \/ InvConnect(i)
          \/ InvOpenService(i)
          \/ InvServiceQuery(i)
          \/ InvSleep(i)
          \/ InvGetWMIInterface(i)
          \/ InvQueryCategory(i)
          \/ InvHostLookup(i)

SpecConc == InitConc /\ [][NextConc]_vars

(***************************************************************************)
(* The helper ConfigureAgent (configurationmanager/helpers.go).  The       *)
(* manager is an interface: its methods answer anything.  A path is a      *)
(* string, the empty path << >>.                                           *)
(***************************************************************************)
FolderPaths ==
    {<< >>, <<"testPath1">>, <<"testPath2">>, <<"testPath3">>, <<"/etc/amazon/ssm">>}
\* The errors a method of the manager returns; "nil" is no error.
ManagerErrors == {"nil", "err1", "err2", "err3", "err4"}
\* IsConfigAvailable answers (bool, error); a mock may set both.
AvailableAnswers == [available : BOOLEAN, err : ManagerErrors]
ManagerCall(op, arg, available, err) ==
    [op |-> op, arg |-> arg, available |-> available, err |-> err]

InitConfigure ==
    /\ HwIdle
    /\ OsdetectIdle
    /\ ConcIdle
    /\ UnixIdle
    /\ S3Idle
    /\ cfgPc = "checkDefault"
    /\ folderPath \in FolderPaths
    /\ cfgCalls = << >>
    /\ cfgRet = "nil"

\* manager.IsConfigAvailable(""): return the error, or nil when the agent
\* is already configured.
IsConfigAvailableDefault ==
    /\ cfgPc = "checkDefault"
    /\ \E a \in AvailableAnswers :
         /\ cfgCalls' = Append(cfgCalls,
                ManagerCall("IsConfigAvailable", << >>, a.available, a.err))
         /\ cfgRet' = a.err
         /\ cfgPc' = IF a.err # "nil" \/ a.available THEN "returned" ELSE "checkFolder"
    /\ UNCHANGED folderPath
    /\ UNCHANGED notCfgVars

\* Variant: a missing config in the folder does not stop the helper.
IsConfigAvailableFolderIgnored ==
    /\ cfgPc = "checkFolder"
    /\ \E a \in AvailableAnswers :
         /\ cfgCalls' = Append(cfgCalls,
                ManagerCall("IsConfigAvailable", folderPath, a.available, a.err))
         /\ cfgRet' = a.err
         /\ cfgPc' = IF a.err # "nil" THEN "returned" ELSE "configure"
    /\ UNCHANGED folderPath
    /\ UNCHANGED notCfgVars

\* manager.IsConfigAvailable(folderPath): return the error, or nil when
\* the folder holds no config.
IsConfigAvailableFolder ==
    /\ cfgPc = "checkFolder"
    /\ \E a \in AvailableAnswers :
         /\ cfgCalls' = Append(cfgCalls,
                ManagerCall("IsConfigAvailable", folderPath, a.available, a.err))
         /\ cfgRet' = a.err
         /\ cfgPc' = IF a.err # "nil" \/ ~a.available THEN "returned" ELSE "configure"
    /\ UNCHANGED folderPath
    /\ UNCHANGED notCfgVars

\* err := manager.ConfigureAgent(folderPath); return err or nil.
ManagerConfigureAgent ==
    /\ cfgPc = "configure"
    /\ \E e \in ManagerErrors :
         /\ cfgCalls' = Append(cfgCalls, ManagerCall("ConfigureAgent", folderPath, FALSE, e))
         /\ cfgRet' = e
    /\ cfgPc' = "returned"
    /\ UNCHANGED folderPath
    /\ UNCHANGED notCfgVars

NextConfigure ==
    \/ IsConfigAvailableDefault
    \/ IsConfigAvailableFolder
    \/ ManagerConfigureAgent

SpecConfigure == InitConfigure /\ [][NextConfigure]_vars

(***************************************************************************)
(* getPlatformDetails of platform_unix.go.  Text is a sequence of tokens:  *)
(* words, the separators the code splits on, and white space.              *)
(***************************************************************************)
osReleaseFile == "/etc/os-release"
systemReleaseFile == "/etc/system-release"
centosReleaseFile == "/etc/centos-release"
redhatReleaseFile == "/etc/redhat-release"
bottlerocketReleaseFile == "/etc/bottlerocket-release"
unameCommand == "/usr/bin/uname"
lsbReleaseCommand == "lsb_release"

ReleaseFiles ==
    {centosReleaseFile, bottlerocketReleaseFile, osReleaseFile,
     systemReleaseFile, redhatReleaseFile}

\* notAvailableMessage as the text getPlatformDetails starts from.
notAvailableText == <<"NotAvailable">>

Whitespace == {" ", "\t", "\n"}

Contains(s, tok) == \E i \in 1..Len(s) : s[i] = tok

\* strings.Split: the pieces of s between the occurrences of sep.
RECURSIVE Split(_, _)
Split(s, sep) ==
    IF ~Contains(s, sep)
    THEN <<s>>
    ELSE LET i == CHOOSE k \in 1..Len(s) :
                      s[k] = sep /\ \A j \in 1..(k - 1) : s[j] # sep
         IN  <<SubSeq(s, 1, i - 1)>> \o Split(SubSeq(s, i + 1, Len(s)), sep)

\* strings.TrimLeft: drops the leading tokens that are in the cutset.
RECURSIVE TrimLeft(_, _)
TrimLeft(s, cutset) ==
    IF s # << >> /\ Head(s) \in cutset THEN TrimLeft(Tail(s), cutset) ELSE s

RECURSIVE TrimRight(_, _)
TrimRight(s, cutset) ==
    IF s # << >> /\ s[Len(s)] \in cutset
    THEN TrimRight(SubSeq(s, 1, Len(s) - 1), cutset)
    ELSE s

TrimSpace(s) == TrimRight(TrimLeft(s, Whitespace), Whitespace)

\* strings.EqualFold: equality up to the case of the letters.
ToLower(tok) == IF tok = "NotAvailable" THEN "notavailable" ELSE tok
EqualFold(s, t) ==
    /\ Len(s) = Len(t)
    /\ \A i \in 1..Len(s) : ToLower(s[i]) = ToLower(t[i])

ReadErrors == {"EACCES", "EIO"}

\* What reading a file or running a command gives: the text, or an error.
ReadAnswers(texts) ==
    [contents : texts, err : {"nil"}] \cup [contents : {<< >>}, err : ReadErrors]

CentosContents ==
    { <<"CentOS", " ", "Linux", " ", "release", " ", "7.9", " ", "(", "Core", ")", "\n">>,
      <<"CentOS", " ", "Stream", "\n">>,
      <<"release", " ", "8", " ", "CentOS">>,
      <<"Red Hat", " ", "release", " ", "8", "\n">>,
      << >> }

SystemContents ==
    { <<"Amazon", " ", "Linux", " ", "release", " ", "2", " ", "(", "Karoo", ")", "\n">>,
      <<"Red Hat", " ", "Enterprise", " ", "release", " ", "7.2", " ", "(", "Maipo", ")">>,
      <<"Rocky", " ", "Linux", "\n">>,
      <<"Fedora", " ", "release", " ", "30">> }

RedhatContents ==
    { <<"Red Hat", " ", "Enterprise", " ", "release", " ", "6.8", " ", "(", "Santiago", ")">>,
      <<"Scientific", " ", "Linux", " ", "release", " ", "6">> }

UnameOutputs == { <<"FreeBSD", " ", "13.2-RELEASE", "\n">>, <<"FreeBSD">> }

LsbNameOutputs == { <<"Distributor ID:", "\t", "Ubuntu", "\n">>, << >> }
LsbVersionOutputs == { <<"Release:", "\t", "22.04", "\n">> }

\* What ini.MapTo fills the osRelease structure with, or its error.
IniAnswers ==
    [NAME : {<<"Amazon", " ", "Linux">>, << >>},
     VERSION_ID : {<<"2">>, << >>},
     err : {"nil"}]
        \cup [NAME : {<< >>}, VERSION_ID : {<< >>}, err : ReadErrors]

\* name and version from "<name> release <version>".
ReleaseName(contents) == TrimSpace(Split(contents, "release")[1])
HasReleaseVersion(contents) == Len(Split(contents, "release")) >= 2
ReleaseVersion(contents) == TrimSpace(Split(contents, "release")[2])
\* the version up to the codename in parentheses.
ReleaseVersionBeforeParen(contents) ==
    TrimSpace(Split(Split(contents, "release")[2], "(")[1])

\* The distributions whose system-release text is split on "release" only.
PlainDistributions == {"CentOS", "SLES", "Raspbian", "Oracle", "Rocky"}

InitUnix ==
    /\ HwIdle
    /\ OsdetectIdle
    /\ ConcIdle
    /\ CfgIdle
    /\ S3Idle
    /\ upc = "centos"
    /\ existing \in SUBSET ReleaseFiles
    /\ goos \in {"linux", "freebsd"}
    /\ consulted = << >>
    /\ osName = notAvailableText
    /\ osVersion = notAvailableText
    /\ osErr = "nil"

\* An entry of the log: the file read or command run, and its error.
Consulted(source, e) == [source |-> source, err |-> e]

\* Neither a name nor a version has been found so far.
NothingFound ==
    EqualFold(osName, notAvailableText) /\ EqualFold(osVersion, notAvailableText)

\* The result of a failed read: the error, name and version as they are.
ReadFailed(e) ==
    /\ osErr' = e
    /\ UNCHANGED <<osName, osVersion>>

CentosRelease ==
    /\ upc = "centos"
    /\ IF centosReleaseFile \in existing
       THEN \E a \in ReadAnswers(CentosContents) :
              /\ consulted' = Append(consulted, Consulted(centosReleaseFile, a.err))
              /\ IF a.err # "nil"
                 THEN /\ ReadFailed(a.err)
                      /\ upc' = "returned"
                 ELSE /\ osErr' = "nil"
                      /\ upc' = "chain"
                      /\ IF Contains(a.contents, "CentOS")
                         THEN /\ osName' = ReleaseName(a.contents)
                              /\ osVersion' =
                                   IF HasReleaseVersion(a.contents)
                                   THEN ReleaseVersionBeforeParen(a.contents)
                                   ELSE osVersion
                         ELSE UNCHANGED <<osName, osVersion>>
       ELSE /\ upc' = "chain"
            /\ UNCHANGED <<consulted, osName, osVersion, osErr>>
    /\ UNCHANGED <<existing, goos>>
    /\ UNCHANGED notUnixVars

CentosResultReturned ==
    /\ upc = "chain"
    /\ ~NothingFound
    /\ upc' = "returned"
    /\ UNCHANGED <<existing, goos, consulted, osName, osVersion, osErr>>
    /\ UNCHANGED notUnixVars

\* ini.MapTo of an os-release style file into name and version.
MapRelease(file) ==
    /\ \E a \in IniAnswers :
         /\ consulted' = Append(consulted, Consulted(file, a.err))
         /\ IF a.err # "nil"
            THEN ReadFailed(a.err)
            ELSE /\ osErr' = "nil"
                 /\ osName' = a.NAME
                 /\ osVersion' = a.VERSION_ID
    /\ upc' = "returned"
    /\ UNCHANGED <<existing, goos>>
    /\ UNCHANGED notUnixVars

BottlerocketRelease ==
    /\ upc = "chain"
    /\ NothingFound
    /\ bottlerocketReleaseFile \in existing
    /\ MapRelease(bottlerocketReleaseFile)

OsReleaseUnordered ==
    /\ upc = "chain"
    /\ NothingFound
    /\ osReleaseFile \in existing
    /\ MapRelease(osReleaseFile)

OsRelease ==
    /\ upc = "chain"
    /\ NothingFound
    /\ bottlerocketReleaseFile \notin existing
    /\ osReleaseFile \in existing
    /\ MapRelease(osReleaseFile)

SystemRelease ==
    /\ upc = "chain"
    /\ NothingFound
    /\ bottlerocketReleaseFile \notin existing
    /\ osReleaseFile \notin existing
    /\ systemReleaseFile \in existing
    /\ \E a \in ReadAnswers(SystemContents) :
         /\ consulted' = Append(consulted, Consulted(systemReleaseFile, a.err))
         /\ IF a.err # "nil"
            THEN ReadFailed(a.err)
            ELSE /\ osErr' = "nil"
                 /\ IF Contains(a.contents, "Amazon")
                    THEN /\ osName' = ReleaseName(a.contents)
                         /\ osVersion' =
                              IF HasReleaseVersion(a.contents)
                              THEN ReleaseVersion(a.contents)
                              ELSE osVersion
                    ELSE IF Contains(a.contents, "Red Hat")
                    THEN /\ osName' = ReleaseName(a.contents)
                         /\ osVersion' =
                              IF HasReleaseVersion(a.contents)
                              THEN ReleaseVersionBeforeParen(a.contents)
                              ELSE osVersion
                    ELSE IF \E d \in PlainDistributions : Contains(a.contents, d)
                    THEN /\ osName' = ReleaseName(a.contents)
                         /\ osVersion' =
                              IF HasReleaseVersion(a.contents)
                              THEN ReleaseVersion(a.contents)
                              ELSE osVersion
                    ELSE UNCHANGED <<osName, osVersion>>
    /\ upc' = "returned"
    /\ UNCHANGED <<existing, goos>>
    /\ UNCHANGED notUnixVars

RedhatRelease ==
    /\ upc = "chain"
    /\ NothingFound
    /\ bottlerocketReleaseFile \notin existing
    /\ osReleaseFile \notin existing
    /\ systemReleaseFile \notin existing
    /\ redhatReleaseFile \in existing
    /\ \E a \in ReadAnswers(RedhatContents) :
         /\ consulted' = Append(consulted, Consulted(redhatReleaseFile, a.err))
         /\ IF a.err # "nil"
            THEN ReadFailed(a.err)
            ELSE /\ osErr' = "nil"
                 /\ IF Contains(a.contents, "Red Hat")
                    THEN /\ osName' = ReleaseName(a.contents)
                         /\ osVersion' =
                              IF HasReleaseVersion(a.contents)
                              THEN ReleaseVersionBeforeParen(a.contents)
                              ELSE osVersion
                    ELSE UNCHANGED <<osName, osVersion>>
    /\ upc' = "returned"
    /\ UNCHANGED <<existing, goos>>
    /\ UNCHANGED notUnixVars

\* No release file of the chain exists.
NoReleaseFile ==
    /\ bottlerocketReleaseFile \notin existing
    /\ osReleaseFile \notin existing
    /\ systemReleaseFile \notin existing
    /\ redhatReleaseFile \notin existing

Uname ==
    /\ upc = "chain"
    /\ NothingFound
    /\ NoReleaseFile
    /\ goos = "freebsd"
    /\ \E a \in ReadAnswers(UnameOutputs) :
         /\ consulted' = Append(consulted, Consulted(unameCommand, a.err))
         /\ IF a.err # "nil"
            THEN ReadFailed(a.err)
            ELSE /\ osErr' = "nil"
                 /\ osName' = TrimSpace(Split(a.contents, " ")[1])
                 /\ osVersion' =
                      IF Len(Split(a.contents, " ")) >= 2
                      THEN TrimSpace(Split(a.contents, " ")[2])
                      ELSE osVersion
    /\ upc' = "returned"
    /\ UNCHANGED <<existing, goos>>
    /\ UNCHANGED notUnixVars

\* lsb_release -i for the name, then lsb_release -r for the version.
LsbRelease ==
    /\ upc = "chain"
    /\ NothingFound
    /\ NoReleaseFile
    /\ goos # "freebsd"
    /\ \E i \in ReadAnswers(LsbNameOutputs), r \in ReadAnswers(LsbVersionOutputs) :
         IF i.err # "nil"
         THEN /\ consulted' = Append(consulted, Consulted(lsbReleaseCommand, i.err))
              /\ ReadFailed(i.err)
         ELSE /\ consulted' = Append(consulted, Consulted(lsbReleaseCommand, r.err))
              /\ osName' =
                   TrimSpace(TrimLeft(TrimSpace(i.contents), {"Distributor ID:"}))
              /\ IF r.err # "nil"
                 THEN /\ osErr' = r.err
                      /\ UNCHANGED osVersion
                 ELSE /\ osErr' = "nil"
                      /\ osVersion' =
                           TrimSpace(TrimLeft(TrimSpace(r.contents), {"Release:"}))
    /\ upc' = "returned"
    /\ UNCHANGED <<existing, goos>>
    /\ UNCHANGED notUnixVars

NextUnix ==
    \/ CentosRelease
    \/ CentosResultReturned
    \/ BottlerocketRelease
    \/ OsRelease
    \/ SystemRelease
    \/ RedhatRelease
    \/ Uname
    \/ LsbRelease

SpecUnix == InitUnix /\ [][NextUnix]_vars

(***************************************************************************)
(* DownloadRemoteResource of s3resource.go.  An S3 key and a local path    *)
(* are sequences of names and path separators.                             *)
(***************************************************************************)
MaxEntries == 3

PathSeparators == {"/"}

\* isPathType: the last character is a path separator.  Of a non-empty
\* name only: folderName[len(folderName)-1] of an empty one panics.
isPathType(folderName) == folderName[Len(folderName)] \in PathSeparators

\* The keys an S3 URL can name: a folder, a file in it, a file, none.
Keys == { <<"dir", "/">>, <<"dir", "/", "a.txt">>, <<"a.txt">>, << >> }

\* The keys a listing can hold.
Entries ==
    { <<"dir", "/">>, <<"dir", "/", "a.txt">>, <<"dir", "/", "sub", "/">>,
      <<"dir", "/", "sub", "/", "b.txt">> }

\* The answers of dep.ListS3Directory: lists of distinct keys.
Listings ==
    UNION { { l \in [1..n -> Entries] : \A i, j \in 1..n : l[i] = l[j] => i = j }
            : n \in 0..MaxEntries }

\* appconfig.DownloadRoot
DownloadRoot == <<"downloads", "/">>
DestPaths == { DownloadRoot, <<"out", "/">>, <<"out", "/", "script">> }

\* The names of a path, without separators and "." elements.
RECURSIVE Names(_)
Names(path) ==
    IF path = << >> THEN << >>
    ELSE IF Head(path) \in PathSeparators \cup {"."} THEN Names(Tail(path))
    ELSE <<Head(path)>> \o Names(Tail(path))

\* filepath.Base: the last element of the path.
PathBase(path) ==
    IF Names(path) = << >> THEN <<".">> ELSE <<Names(path)[Len(Names(path))]>>

\* filepath.Dir: all but the last element, which is empty after a separator.
PathDir(path) ==
    IF path # << >> /\ path[Len(path)] \in PathSeparators
    THEN Names(path)
    ELSE SubSeq(Names(path), 1, Len(Names(path)) - 1)

\* filepath.Join and fileutil.BuildPath: the names of both, cleaned.
PathJoin(dir, file) == Names(dir) \o Names(file)

\* strings.TrimPrefix
TrimPrefix(s, prefix) ==
    IF Len(prefix) <= Len(s) /\ SubSeq(s, 1, Len(prefix)) = prefix
    THEN SubSeq(s, Len(prefix) + 1, Len(s))
    ELSE s

InitS3 ==
    /\ HwIdle
    /\ OsdetectIdle
    /\ ConcIdle
    /\ CfgIdle
    /\ UnixIdle
    /\ s3pc = "parse"
    /\ s3Key = << >>
    /\ destPath \in DestPaths
    /\ folders = << >>
    /\ entry = 1
    /\ isDirTypeDownloaded = TRUE
    /\ resultFiles = << >>
    /\ listed = "no"
    /\ downloads = << >>
    /\ localFile = << >>
    /\ s3Ret = DownloadReturn("nil", TRUE, << >>)

\* return err, nil
ReturnError(e) ==
    /\ s3pc' = "returned"
    /\ s3Ret' = DownloadReturn(e, TRUE, << >>)

\* url.Parse(s3.Info.Path)
ParseURL ==
    /\ s3pc = "parse"
    /\ \E ok \in BOOLEAN :
         IF ok THEN s3pc' = "validate" /\ UNCHANGED s3Ret
               ELSE ReturnError("parseErr")
    /\ UNCHANGED <<s3Key, destPath, folders, entry, isDirTypeDownloaded,
                   resultFiles, listed, downloads, localFile>>
    /\ UNCHANGED notS3Vars

\* s3util.ParseAmazonS3URL and the check of IsValidS3URI
ParseAmazonS3URL ==
    /\ s3pc = "validate"
    /\ \E valid \in BOOLEAN, k \in Keys :
         /\ s3Key' = k
         /\ IF valid THEN s3pc' = "list" /\ UNCHANGED s3Ret
                     ELSE ReturnError("invalidS3Path")
    /\ UNCHANGED <<destPath, folders, entry, isDirTypeDownloaded, resultFiles,
                   listed, downloads, localFile>>
    /\ UNCHANGED notS3Vars

ListS3DirectoryKeepsGoing ==
    /\ s3pc = "list"
    /\ \E ok \in BOOLEAN, l \in Listings :
         /\ listed' = IF ok THEN "ok" ELSE "err"
         /\ IF ~ok /\ s3Key = << >>
            THEN /\ s3pc' = "panicked"
                 /\ UNCHANGED <<folders, isDirTypeDownloaded, s3Ret>>
            ELSE LET fs == IF ok THEN l ELSE << >>
                 IN  /\ s3pc' = "loop"
                     /\ folders' = IF Len(fs) = 0 THEN <<s3Key>> ELSE fs
                     /\ isDirTypeDownloaded' = (Len(fs) # 0)
                     /\ UNCHANGED s3Ret
    /\ UNCHANGED <<s3Key, destPath, entry, resultFiles, downloads, localFile>>
    /\ UNCHANGED notS3Vars

\* dep.ListS3Directory, and the key as the only entry of an empty list
ListS3Directory ==
    /\ s3pc = "list"
    /\ \E ok \in BOOLEAN, l \in Listings :
         /\ listed' = IF ok THEN "ok" ELSE "err"
         /\ IF ~ok /\ s3Key = << >>
            THEN /\ s3pc' = "panicked"
                 /\ UNCHANGED <<folders, isDirTypeDownloaded, s3Ret>>
            ELSE IF ~ok /\ isPathType(s3Key)
            THEN /\ ReturnError("listErr")
                 /\ UNCHANGED <<folders, isDirTypeDownloaded>>
            ELSE LET fs == IF ok THEN l ELSE << >>
                 IN  /\ s3pc' = "loop"
                     /\ folders' = IF Len(fs) = 0 THEN <<s3Key>> ELSE fs
                     /\ isDirTypeDownloaded' = (Len(fs) # 0)
                     /\ UNCHANGED s3Ret
    /\ UNCHANGED <<s3Key, destPath, entry, resultFiles, downloads, localFile>>
    /\ UNCHANGED notS3Vars

\* The head of the loop: the next entry, or return nil, result.
NextEntry ==
    /\ s3pc = "loop"
    /\ IF entry > Len(folders)
       THEN /\ s3pc' = "returned"
            /\ s3Ret' = DownloadReturn("nil", FALSE, resultFiles)
            /\ UNCHANGED entry
       ELSE IF folders[entry] = << >>
       THEN /\ s3pc' = "panicked"
            /\ UNCHANGED <<entry, s3Ret>>
       ELSE IF isPathType(folders[entry])
       THEN /\ entry' = entry + 1
            /\ UNCHANGED <<s3pc, s3Ret>>
       ELSE /\ s3pc' = "sourceURL"
            /\ UNCHANGED <<entry, s3Ret>>
    /\ UNCHANGED <<s3Key, destPath, folders, isDirTypeDownloaded, resultFiles,
                   listed, downloads, localFile>>
    /\ UNCHANGED notS3Vars

\* s3.getS3BucketURLString and url.QueryUnescape of the source URL
SourceURL ==
    /\ s3pc = "sourceURL"
    /\ \E outcome \in {"ok", "bucketURLErr", "unescapeErr"} :
         IF outcome = "ok" THEN s3pc' = "download" /\ UNCHANGED s3Ret
                           ELSE ReturnError(outcome)
    /\ UNCHANGED <<s3Key, destPath, folders, entry, isDirTypeDownloaded,
                   resultFiles, listed, downloads, localFile>>
    /\ UNCHANGED notS3Vars

\* input.DestinationDirectory and destinationFile of the entry.
LocalFile(files, destIsDirectory) ==
    IF isDirTypeDownloaded
    THEN PathJoin(PathJoin(destPath, PathDir(TrimPrefix(files, s3Key))),
                  PathBase(files))
    ELSE IF destIsDirectory \/ isPathType(destPath)
    THEN PathJoin(destPath, PathBase(files))
    ELSE PathJoin(PathDir(destPath), PathBase(destPath))

\* The local destination of the entry, and dep.Download
Download ==
    /\ s3pc = "download"
    /\ downloads' = Append(downloads, folders[entry])
    /\ \E destIsDirectory \in BOOLEAN :
         localFile' = LocalFile(folders[entry], destIsDirectory)
    /\ \E ok \in BOOLEAN :
         IF ok THEN s3pc' = "rename" /\ UNCHANGED s3Ret
               ELSE ReturnError("downloadErr")
    /\ UNCHANGED <<s3Key, destPath, folders, entry, isDirTypeDownloaded,
                   resultFiles, listed>>
    /\ UNCHANGED notS3Vars

\* system.RenameFile and the append to result.Files
RenameFile ==
    /\ s3pc = "rename"
    /\ \E ok \in BOOLEAN :
         IF ok
         THEN /\ resultFiles' = Append(resultFiles, localFile)
              /\ entry' = entry + 1
              /\ s3pc' = "loop"
              /\ UNCHANGED s3Ret
         ELSE /\ ReturnError("renameErr")
              /\ UNCHANGED <<resultFiles, entry>>
    /\ UNCHANGED <<s3Key, destPath, folders, isDirTypeDownloaded, listed,
                   downloads, localFile>>
    /\ UNCHANGED notS3Vars

NextS3 ==
    \/ ParseURL
    \/ ParseAmazonS3URL
    \/ ListS3Directory
    \/ NextEntry
    \/ SourceURL
    \/ Download
    \/ RenameFile

SpecS3 == InitS3 /\ [][NextS3]_vars

(***************************************************************************)
(* Properties of currentHwHash.                                            *)
(***************************************************************************)
Range(seq) == {seq[i] : i \in 1..Len(seq)}
Queried == Range(wmicCalls) \cup Range(wqlCalls)
Returned == pc \in {"done", "failed"}
\* All serviceRetry polls were made and none reported (Running, nil).
AllPollsFailed == numQueries = serviceRetry /\ numRunning = 0
\* The value stored for category c, "missing" when the key is absent.
Stored(c) ==
    IF CategoryKey(c) \in DOMAIN hardwareHash
    THEN hardwareHash[CategoryKey(c)] ELSE <<"missing">>

\* C1: when each of the 5 status polls errored or reported a state other
\* than running, currentHwHash ends with a non-nil error and no hardware
\* category query was made at any point (nor was a strategy selected).
C1_ReadinessTimeout ==
    AllPollsFailed =>
        /\ pc \in {"sleep", "failed"}
        /\ (Returned => pc = "failed" /\ retErr = "wait")
        /\ wmicCalls = << >> /\ wqlCalls = << >>
        /\ numSelect = 0

C1_Witness ==
    /\ pc = "failed" /\ retErr = "wait"
    /\ AllPollsFailed /\ numQueryErrs = 2
    /\ Queried = {}

\* The nine keys of a complete fingerprint map.
NineKeys ==
    {"uuid", "processor-hash", "memory-hash", "bios-hash", "system-hash",
     "hostname-info", "ip-address", "macaddr-info", "disk-info"}

\* C2 as stated: whatever the outcome of an invocation that reached the
\* readiness wait (readiness failure included), the returned map holds
\* exactly the nine keys.
C2_TotalKeysAnyOutcome ==
    (Returned /\ numQueries > 0) => DOMAIN hardwareHash = NineKeys

\* C2 amended: the map never holds a key outside the nine; when
\* currentHwHash returns a nil error the map holds exactly the nine keys
\* (all succeed, all fail or any mix); when it returns an error (connect,
\* open or readiness wait) the map is empty.
C2_TotalKeysOnSuccess ==
    /\ DOMAIN hardwareHash \subseteq NineKeys
    /\ (pc = "done" => retErr = "nil" /\ DOMAIN hardwareHash = NineKeys)
    /\ (pc = "failed" => retErr # "nil" /\ DOMAIN hardwareHash = {})

C2_Witness ==
    /\ pc = "done"
    /\ catErr = {"processor", "disk"}
    /\ DOMAIN hardwareHash = NineKeys
    /\ hardwareHash["ip-address"] = << >>

\* The step of currentHwHash before the category queries that failed.
GateFailed ==
    \/ lastCall.op \in {"Connect", "OpenService"} /\ lastCall.err
    \/ AllPollsFailed

\* C3 as stated: the returned error is non-nil if and only if the readiness
\* wait failed.
C3_ErrorIffWaitFailed ==
    Returned => (retErr # "nil" <=> AllPollsFailed)

\* C3 amended: the returned error is non-nil if and only if connecting to
\* the service manager, opening the service or the readiness wait failed;
\* no failure of version detection, of a category query or of a
\* host-identity lookup is returned, also when all of them fail.
C3_ErrorIffGateFailed ==
    /\ Returned => (retErr # "nil" <=> GateFailed)
    /\ (Returned /\ numSelect = 1) => retErr = "nil"
    /\ retErr \in {"nil", "connect", "open", "wait"}

C3_Witness ==
    /\ pc = "done" /\ retErr = "nil"
    /\ catErr = CategorySet
    /\ \A k \in HostKeys : hardwareHash[k] = << >>

\* C4: once the service is ready, currentHwHash returns only after all six
\* categories were queried, whichever of them failed; the key of a category
\* whose query failed holds the empty string and the key of every other
\* category holds a non-empty digest.
C4_PartialFailureIsolation ==
    (Returned /\ numRunning = 1) =>
        /\ pc = "done"
        /\ Queried = CategorySet
        /\ \A c \in CategorySet :
             IF c \in catErr THEN Stored(c) = << >>
             ELSE Stored(c) # << >> /\ Stored(c) # <<"missing">>

C4_Witness ==
    /\ pc = "done"
    /\ catErr = {"processor"}
    /\ Stored("processor") = << >>
    /\ \A c \in CategorySet \ {"processor"} : Len(Stored(c)) > 1

\* The digest of category c for attribute value v through each backend.
WmicDigest(c, v) == Base64Encode(Md5Sum(CommandOutput(c, v)))
WqlDigest(c, v) == Base64Encode(Md5Sum(GobEncode(Record(c, v))))
\* The last call was the query of a category and its collaborator did res.
CategoryCallDid(res) == lastCall.op \in CategorySet /\ lastCall.res = res

\* C5 as stated: the digest stored for a category is the one the
\* command-output backend and the structured-query backend both produce
\* for the hardware fact, whichever backend was selected.
C5_BackendEquivalence ==
    CategoryCallDid("ok") =>
        /\ Stored(lastCall.op) = WmicDigest(lastCall.op, hw)
        /\ Stored(lastCall.op) = WqlDigest(lastCall.op, hw)

\* C5 amended: the digest stored for a category depends on the hardware
\* fact and on the backend: under WMIC it is base64(md5(command output)),
\* under WQL base64(md5(gob(first record))); it differs from the digest the
\* other backend produces for the same fact and from the digest either
\* backend produces for any other fact.
C5_DigestPerBackend ==
    CategoryCallDid("ok") =>
        LET c == lastCall.op
            d == Stored(lastCall.op)
        IN /\ wmiInterface = wmic => d = WmicDigest(c, hw) /\ d # WqlDigest(c, hw)
           /\ wmiInterface = wql => d = WqlDigest(c, hw) /\ d # WmicDigest(c, hw)
           /\ \A v \in Facts \ {hw} : d # WmicDigest(c, v) /\ d # WqlDigest(c, v)

C5_Witness ==
    /\ CategoryCallDid("ok")
    /\ lastCall.op = "processor"
    /\ wmiInterface = wql
    /\ Stored("processor") = WqlDigest("processor", hw)

\* C6 as stated: a structured query that returns zero records is an error
\* and the key of the category holds the empty string.
C6_ZeroResultsAreError ==
    CategoryCallDid("zero") =>
        lastCall.err /\ Stored(lastCall.op) = << >>

\* C6 amended: a structured query that succeeds with zero records yields
\* the zero-value record with a nil error; the category function returns
\* no error and the key holds the non-empty digest of the zero-value
\* record, which does not depend on the hardware.
C6_ZeroResultsHashed ==
    CategoryCallDid("zero") =>
        /\ wmiInterface = wql
        /\ ~lastCall.err
        /\ lastCall.op \notin catErr
        /\ Stored(lastCall.op) = Base64Encode(Md5Sum(GobEncode(ZeroRecord(lastCall.op))))
        /\ Stored(lastCall.op) # << >>
        /\ \A v \in Facts : Stored(lastCall.op) # WqlDigest(lastCall.op, v)

C6_Witness ==
    /\ CategoryCallDid("zero")
    /\ lastCall.op = "disk"
    /\ pc = "done"
    /\ Len(Stored("disk")) > 1

\* The positions of currentHwHash after waitForService returned nil.
AfterWait ==
    {"select", "uuid", "processor", "memory", "bios", "system", "hostname",
     "ip", "mac", "disk", "done"}

\* C7: waitForService makes at most 5 status queries; it returns nil at
\* the first query that answers (Running, nil) and queries no more after
\* it; it returns the timeout error only after 5 queries none of which
\* answered (Running, nil).
C7_WaitBounded ==
    /\ numQueries <= serviceRetry
    /\ numRunning <= 1
    /\ (pc = "query" => numQueries = attempt - 1 /\ numRunning = 0)
    /\ (pc = "sleep" => numQueries = attempt /\ numRunning = 0)
    /\ (pc \in AfterWait <=> numRunning = 1)
    /\ (numRunning = 1 => numQueries = attempt /\ numSleeps = attempt - 1)
    /\ (retErr = "wait" =>
          pc = "failed" /\ numQueries = serviceRetry /\ numRunning = 0)

C7_Witness ==
    /\ pc = "done"
    /\ numRunning = 1
    /\ numQueries = 3

\* C8: a status-query error does not end the wait: it costs one attempt
\* like a not-running answer, the timeout error needs 5 queries whatever
\* the number of errors among them, and once a query answers
\* (Running, nil) the wait has succeeded however many earlier queries
\* returned an error.
C8_QueryErrorNotFatal ==
    /\ numQueryErrs <= numQueries - numRunning
    /\ (lastCall.op = "Query" /\ lastCall.err) =>
          \/ pc \in {"sleep", "query"} /\ retErr = "nil"
          \/ pc = "failed" /\ numQueries = serviceRetry
    /\ (pc = "sleep" /\ lastCall.err) => attempt = numQueries
    /\ (numRunning = 1 => retErr = "nil" /\ pc \in AfterWait)

C8_Witness ==
    /\ numRunning = 1
    /\ numQueryErrs = 4
    /\ pc = "select"
    /\ retErr = "nil"

\* C9: getWMIInterface is called exactly once per invocation, after the
\* readiness wait succeeded and before the first category query; every
\* category query of the invocation goes through the selected interface, so
\* never both a command-output and a structured-query category query.
C9_StrategySelectedOnce ==
    /\ numSelect <= 1
    /\ (pc \in AfterWait \ {"select"} <=> numSelect = 1)
    /\ (numSelect = 0 => wmiInterface = "" /\ Queried = {})
    /\ (numSelect = 1 => numRunning = 1 /\ wmiInterface \in {wmic, wql})
    /\ (wmicCalls = << >> \/ wqlCalls = << >>)
    /\ (wmicCalls # << >> => wmiInterface = wmic)
    /\ (wqlCalls # << >> => wmiInterface = wql)
    /\ (pc = "done" => Len(wmicCalls) + Len(wqlCalls) = Len(Categories))

C9_Witness ==
    /\ pc = "done"
    /\ numSelect = 1
    /\ wqlCalls = Categories
    /\ wmicCalls = << >>

\* The version v, a sequence of numbers, is 10.0.26100 or later.
AtOrAfter2025(v) ==
    /\ Len(v) >= 1
    /\ \/ v[1] > 10
       \/ /\ v[1] = 10
          /\ Len(v) >= 2
          /\ \/ v[2] > 0
             \/ v[2] = 0 /\ Len(v) >= 3 /\ v[3] >= 26100

\* C10: getWMIInterface returns WQL exactly when the platform version was
\* obtained without error, is a valid version and is 10.0.26100 or later;
\* otherwise (lower version such as 10.0.19041, detection error, comparison
\* error) it returns WMIC; in every case currentHwHash goes on with the
\* first category query.
C10_VersionThreshold ==
    lastCall.op = "getPlatformVersion" =>
        /\ wmiInterface \in {wmic, wql}
        /\ wmiInterface = wql <=>
              /\ ~lastCall.err
              /\ ValidVersion(lastCall.version)
              /\ AtOrAfter2025(lastCall.version)
        /\ (lastCall.version = <<10, 0, 19041>> => wmiInterface = wmic)
        /\ (lastCall.version = <<10, 0, 26100>> /\ ~lastCall.err => wmiInterface = wql)
        /\ pc = "uuid" /\ retErr = "nil"

C10_Witness ==
    /\ lastCall.op = "getPlatformVersion"
    /\ ~lastCall.err
    /\ lastCall.version = <<10, 0, 26100>>
    /\ wmiInterface = wql

C10_WitnessFallback ==
    /\ lastCall.op = "getPlatformVersion"
    /\ lastCall.err
    /\ lastCall.version = <<11, 0, 0>>
    /\ wmiInterface = wmic

\* (a, b, c) >= (10, 0, 26100), component by component as numbers.
NumericAtOrAfter(v) ==
    \/ v[1] > 10
    \/ v[1] = 10 /\ v[2] > 0
    \/ v[1] = 10 /\ v[2] = 0 /\ v[3] >= 26100

\* s >= t for strings given as character codes (Go's string comparison).
RECURSIVE StringAtOrAfter(_, _)
StringAtOrAfter(s, t) ==
    IF t = << >> THEN TRUE
    ELSE IF s = << >> THEN FALSE
    ELSE IF Head(s) # Head(t) THEN Head(s) > Head(t)
    ELSE StringAtOrAfter(Tail(s), Tail(t))

\* The version string "a.b.c" sorts at or after "10.0.26100" as a string.
SortsAfterAsString(v) ==
    StringAtOrAfter(VersionString(v), <<49, 48, 46, 48, 46, 50, 54, 49, 48, 48>>)

\* C11: for a version a.b.c obtained without error the selector answers
\* WQL exactly when (a, b, c) >= (10, 0, 26100) as numbers, component by
\* component, also where the string order of the two versions is the
\* opposite (10.0.9999, 9.9.99999, 10.0.100000).
C11_NumericComparison ==
    (/\ lastCall.op = "getPlatformVersion"
     /\ ~lastCall.err
     /\ lastCall.version \in ThreePartVersions) =>
        /\ wmiInterface = wql <=> NumericAtOrAfter(lastCall.version)
        /\ (SortsAfterAsString(lastCall.version) /\ ~NumericAtOrAfter(lastCall.version))
              => wmiInterface = wmic
        /\ (~SortsAfterAsString(lastCall.version) /\ NumericAtOrAfter(lastCall.version))
              => wmiInterface = wql

C11_Witness ==
    /\ lastCall.op = "getPlatformVersion"
    /\ ~lastCall.err
    /\ lastCall.version = <<9, 9, 99999>>
    /\ SortsAfterAsString(lastCall.version)
    /\ wmiInterface = wmic

C11_WitnessLonger ==
    /\ lastCall.op = "getPlatformVersion"
    /\ ~lastCall.err
    /\ lastCall.version = <<10, 0, 100000>>
    /\ ~SortsAfterAsString(lastCall.version)
    /\ wmiInterface = wql

\* The value stored under a host-identity key is what the lookup can return.
HostValueStored(k) ==
    /\ k \in DOMAIN hardwareHash
    /\ hardwareHash[k] \in {HostValue(k), << >>}

\* C12 as stated: for every readiness outcome (ready or timed out) and
\* either strategy the returned map holds under hostname-info, ip-address
\* and macaddr-info the value of the host-identity lookup, or the empty
\* string when the lookup failed.
C12_HostInfoAnyReadiness ==
    (Returned /\ (numRunning = 1 \/ AllPollsFailed)) =>
        \A k \in HostKeys : k \in hostCalls /\ HostValueStored(k)

\* C12 amended: when the readiness wait succeeded, then for either
\* strategy the returned map holds under each of the three keys the value
\* its lookup returned, or the empty string when that lookup failed; when
\* currentHwHash returns an error (timed out, connect or open failure) no
\* lookup was made and none of the three keys is in the map.
C12_HostInfoWhenReady ==
    /\ hostCalls = HostKeys \cap DOMAIN hardwareHash
    /\ lastCall.op \in HostKeys =>
          /\ lastCall.op \in DOMAIN hardwareHash
          /\ hardwareHash[lastCall.op] =
                IF lastCall.err THEN << >> ELSE HostValue(lastCall.op)
    /\ pc = "done" =>
          /\ wmiInterface \in {wmic, wql}
          /\ \A k \in HostKeys : k \in hostCalls /\ HostValueStored(k)
    /\ pc = "failed" => hostCalls = {}

C12_Witness ==
    /\ pc = "done"
    /\ wmiInterface = wmic
    /\ catErr = CategorySet
    /\ hardwareHash["hostname-info"] = <<"host1">>
    /\ hardwareHash["ip-address"] = << >>
    /\ hardwareHash["macaddr-info"] = <<"aa:bb:cc:dd:ee:ff">>

\* The category queries made so far, in call order.
CallOrder == wmicCalls \o wqlCalls
\* The number of category statements currentHwHash has completed at p.
Completed(p) ==
    CASE p = "processor" -> 1
      [] p = "memory" -> 2
      [] p = "bios" -> 3
      [] p = "system" -> 4
      [] p \in {"hostname", "ip", "mac", "disk"} -> 5
      [] p = "done" -> 6
      [] OTHER -> 0

\* C13: the categories are queried in the order uuid, processor, memory,
\* bios, system, disk: at every point the queries made are a prefix of
\* that order, as long as the position of currentHwHash says, and the key
\* of a category is in the map exactly when its query has completed, so
\* before the next query starts.
C13_FixedOrder ==
    /\ Len(CallOrder) = Completed(pc)
    /\ CallOrder = SubSeq(Categories, 1, Len(CallOrder))
    /\ \A i \in 1..Len(Categories) :
          CategoryKey(Categories[i]) \in DOMAIN hardwareHash <=> i <= Len(CallOrder)
    /\ (pc = "done" => CallOrder = Categories)

C13_Witness ==
    /\ pc = "disk"
    /\ wqlCalls = <<"uuid", "processor", "memory", "bios", "system">>
    /\ "disk-info" \notin DOMAIN hardwareHash
    /\ "system-hash" \in DOMAIN hardwareHash

\* How many times category c was queried.
TimesQueried(c) == Cardinality({i \in 1..Len(CallOrder) : CallOrder[i] = c})

\* C14: nothing is retried.  A category is queried at most once, a failed
\* one stays with the empty string and the invocation goes on to the next
\* statement; the readiness wait is the only loop and runs once: status
\* queries are made only before the strategy is selected and before any
\* category query or host lookup, at most serviceRetry of them, and at
\* most one of them is answered (Running, nil).
C14_NoRetries ==
    /\ \A c \in CategorySet : TimesQueried(c) <= 1
    /\ \A c \in catErr : TimesQueried(c) = 1 /\ Stored(c) = << >>
    /\ (lastCall.op \in CategorySet /\ lastCall.err) =>
          /\ TimesQueried(lastCall.op) = 1
          /\ CallOrder[Len(CallOrder)] = lastCall.op
          /\ pc \notin {"failed", lastCall.op}
    /\ (pc \in {"connect", "open", "query", "sleep", "failed"}) =>
          /\ numSelect = 0
          /\ CallOrder = << >>
          /\ hostCalls = {}
    /\ (pc \in AfterWait) => numRunning = 1 /\ numSelect <= 1
    /\ numQueries <= serviceRetry
    /\ numRunning <= 1

C14_Witness ==
    /\ pc = "done"
    /\ catErr = {"uuid", "bios", "disk"}
    /\ \A c \in CategorySet : TimesQueried(c) = 1
    /\ numQueries = 3
    /\ numRunning = 1

\* The state of the informal state machine an invocation is in.  The wait
\* has timed out when the last of the serviceRetry polls has failed: no
\* further poll is made and waitForService returns its error after the
\* sleep.
Phase ==
    CASE pc \in {"connect", "open"} -> "NotStarted"
      [] pc = "query" -> "WaitingForService"
      [] pc = "sleep" /\ attempt < serviceRetry -> "WaitingForService"
      [] pc = "sleep" /\ attempt >= serviceRetry -> "TimedOut"
      [] pc = "select" -> "Ready"
      [] pc = "done" -> "Done"
      [] pc = "failed" -> "Failed"
      [] OTHER -> "Collecting"

\* The transitions of the state machine as the specification draws it.
MachineSteps ==
    {<<"NotStarted", "NotStarted">>, <<"NotStarted", "WaitingForService">>,
     <<"WaitingForService", "WaitingForService">>,
     <<"WaitingForService", "Ready">>, <<"WaitingForService", "TimedOut">>,
     <<"Ready", "Collecting">>, <<"Collecting", "Collecting">>,
     <<"Collecting", "Done">>, <<"TimedOut", "Failed">>}

\* This step of the invocation is one of the transitions in steps.
StepIn(steps) == <<Phase, Phase'>> \in steps

\* C15 as stated: every step of an invocation is a transition of the
\* state machine, so Failed is entered only from TimedOut.
C15_FailedOnlyFromTimedOut == [][StepIn(MachineSteps)]_vars

\* C15: every step of an invocation is a transition of the state machine
\* or the step from NotStarted to Failed (connecting to the service
\* manager or opening the service failed).  So Collecting is entered only
\* from Ready, Failed only from TimedOut or NotStarted and never from
\* Collecting, whatever the category queries answer; Done and Failed have
\* no successor, and Done carries a nil error and Failed a non-nil one.
C15_StateMachine ==
    [][/\ StepIn(MachineSteps \cup {<<"NotStarted", "Failed">>})
       /\ (Phase' = "Failed" /\ Phase = "NotStarted") => retErr' \in {"connect", "open"}
       /\ (Phase' = "Failed" /\ Phase = "TimedOut") => retErr' = "wait"
       /\ Phase' = "Done" => retErr' = "nil"
       /\ Phase = "Collecting" => retErr' = "nil" /\ Phase' # "Failed"]_vars

C15_Witness ==
    /\ Phase = "Done"
    /\ retErr = "nil"
    /\ catErr = {"processor", "system", "disk"}
    /\ numQueries = serviceRetry

C15_WitnessFailed ==
    /\ Phase = "Failed"
    /\ retErr = "wait"
    /\ numSleeps = serviceRetry

\* The position in Categories of category c.
CategoryIndex(c) == CHOOSE i \in 1..Len(Categories) : Categories[i] = c

\* C18: a category whose record was fetched but could not be encoded is
\* left like one whose query failed: the category function returns an
\* error, the key holds the empty string, the error is not returned by
\* currentHwHash and the invocation is at the statement after that
\* category; and every nil-error return has queried all six categories.
C18_EncodingFailureLikeQueryFailure ==
    /\ (CategoryCallDid("encErr") \/ CategoryCallDid("queryErr")) =>
          /\ lastCall.err
          /\ wmiInterface = wql
          /\ lastCall.op \in catErr
          /\ Stored(lastCall.op) = << >>
          /\ retErr = "nil"
          /\ pc # "failed"
          /\ Completed(pc) = CategoryIndex(lastCall.op)
    /\ (pc = "done") => Queried = CategorySet /\ retErr = "nil"

C18_Witness ==
    /\ CategoryCallDid("encErr")
    /\ lastCall.op = "memory"
    /\ pc = "bios"
    /\ hardwareHash["memory-hash"] = << >>
    /\ Len(hardwareHash["processor-hash"]) > 0

C18_WitnessDone ==
    /\ CategoryCallDid("encErr")
    /\ pc = "done"
    /\ catErr = {"disk"}

\* A bound on the number of statements an invocation still executes: two
\* per remaining attempt of the wait (query, sleep), then the ten
\* statements from the strategy selection to the disk query.
StepsLeft ==
    CASE pc = "connect" -> 2 * serviceRetry + 12
      [] pc = "open" -> 2 * serviceRetry + 11
      [] pc = "query" -> 2 * (serviceRetry - attempt) + 2 + 10
      [] pc = "sleep" -> 2 * (serviceRetry - attempt) + 1 + 10
      [] pc = "select" -> 10
      [] pc \in CategorySet \ {"disk"} -> 9 - Completed(pc)
      [] pc = "hostname" -> 4
      [] pc = "ip" -> 3
      [] pc = "mac" -> 2
      [] pc = "disk" -> 1
      [] OTHER -> 0

\* C19: every invocation eventually returns (Done or Failed), and the
\* readiness wait cannot poll forever: whatever the service answers, it
\* makes at most serviceRetry polls and sleeps, every step brings the
\* invocation closer to its return, and an invocation that has not
\* returned can take a step.
C19_Termination ==
    /\ <>Returned
    /\ [](Returned \/ ENABLED Next)
    /\ [][/\ StepsLeft' < StepsLeft
          /\ StepsLeft' >= 0
          /\ numQueries' <= serviceRetry
          /\ numSleeps' <= serviceRetry]_vars

C19_Witness ==
    /\ pc = "done"
    /\ numQueries = serviceRetry
    /\ numQueryErrs = 2
    /\ numSleeps = serviceRetry - 1

C19_WitnessFailed ==
    /\ pc = "failed"
    /\ numQueries = serviceRetry
    /\ numSleeps = serviceRetry
    /\ numQueryErrs = 3

(***************************************************************************)
(* Properties of DetectPlatform.                                           *)
(***************************************************************************)
NanoSuffix == <<"n", "a", "n", "o">>
NanoServerSKUs == {SKUProductStandardNanoServer, SKUProductDatacenterNanoServer}

\* C20: DetectPlatform returns a nil error, platform "windows" and family
\* "windows"; the version is empty when getOSInfo returned an error,
\* whatever record came with it, and otherwise the Version of the record,
\* followed by "nano" exactly when the SKU is one of the two Nano Server
\* SKUs.
C20_DetectPlatform ==
    (dpc = "returned") =>
        /\ ~detected.err
        /\ detected.platform = <<"w", "i", "n", "d", "o", "w", "s">>
        /\ detected.family = <<"w", "i", "n", "d", "o", "w", "s">>
        /\ wmiErr => detected.version = << >>
        /\ (~wmiErr /\ wmiData.OperatingSystemSKU \in NanoServerSKUs) =>
              detected.version = wmiData.Version \o NanoSuffix
        /\ (~wmiErr /\ wmiData.OperatingSystemSKU \notin NanoServerSKUs) =>
              detected.version = wmiData.Version

\* getOSInfo returned an error together with a record that has a Version.
C20_Witness ==
    /\ dpc = "returned"
    /\ wmiErr
    /\ wmiData.Version = <<"1", "0">>
    /\ wmiData.OperatingSystemSKU = 144
    /\ detected.version = << >>

C20_WitnessNano ==
    /\ dpc = "returned"
    /\ ~wmiErr
    /\ wmiData.OperatingSystemSKU = 143
    /\ detected.version = <<"1", "0", "n", "a", "n", "o">>

C20_WitnessRegular ==
    /\ dpc = "returned"
    /\ ~wmiErr
    /\ wmiData.OperatingSystemSKU = 100
    /\ detected.version = <<"1", "0", "n", "a", "n", "o">>

(***************************************************************************)
(* Properties of concurrent invocations.                                   *)
(***************************************************************************)
\* What an invocation returns when it runs alone and its collaborators
\* answer with s: the map and the error, from the answers only.
AloneStrategy(s) == IF ~s.versionErr /\ AtOrAfter2025(s.version) THEN wql ELSE wmic
AloneValue(s, p) ==
    IF p \in s.failed THEN << >>
    ELSE IF p \in {"hostname", "ip", "mac"} THEN HostValue(HostKeyAt(p))
    ELSE IF AloneStrategy(s) = wql THEN WqlDigest(p, hw)
    ELSE WmicDigest(p, hw)
KeyAt(p) == IF p \in {"hostname", "ip", "mac"} THEN HostKeyAt(p) ELSE CategoryKey(p)
AloneMap(s, n) ==
    [k \in {KeyAt(Statements[m]) : m \in 1..n} |->
        AloneValue(s, CHOOSE p \in {Statements[m] : m \in 1..n} : KeyAt(p) = k)]
AloneResult(s) ==
    IF s.connectErr THEN [hardwareHash |-> EmptyMap, retErr |-> "connect"]
    ELSE IF s.openErr THEN [hardwareHash |-> EmptyMap, retErr |-> "open"]
    ELSE IF ~s.running THEN [hardwareHash |-> EmptyMap, retErr |-> "wait"]
    ELSE [hardwareHash |-> AloneMap(s, 9), retErr |-> "nil"]
\* The number of statements after getWMIInterface that position p has behind it.
StatementsDone(p) ==
    IF p \in Range(Statements)
    THEN (CHOOSE n \in 1..Len(Statements) : Statements[n] = p) - 1
    ELSE 0

\* C17: for every interleaving of two invocations, the map and the error
\* an invocation returns are those it returns alone for the answers it
\* got; at every point its map holds exactly what its own statements
\* wrote, and its strategy is the one chosen from its own version answer.
C17_NoInterference ==
    \A i \in Invocations :
        /\ (inv[i].pc \in {"done", "failed"}) =>
              [hardwareHash |-> inv[i].hardwareHash, retErr |-> inv[i].retErr]
                 = AloneResult(seen[i])
        /\ inv[i].hardwareHash = AloneMap(seen[i], StatementsDone(inv[i].pc))
        /\ (inv[i].pc \in Range(Statements)) => inv[i].wmiInterface = AloneStrategy(seen[i])

\* Both invocations returned, with different strategies and different
\* failures.
C17_Witness ==
    /\ inv["a"].pc = "done"
    /\ inv["b"].pc = "done"
    /\ inv["a"].wmiInterface = wql
    /\ inv["b"].wmiInterface = wmic
    /\ seen["a"].failed = {"uuid", "hostname"}
    /\ seen["b"].failed = {"disk"}
    /\ inv["a"].hardwareHash # inv["b"].hardwareHash

C17_WitnessFailed ==
    /\ inv["a"].pc = "failed"
    /\ inv["a"].retErr = "wait"
    /\ inv["b"].pc = "disk"
    /\ seen["b"].running
    /\ service = "Stopped"

(***************************************************************************)
(* Further properties of currentHwHash.                                    *)
(***************************************************************************)
\* C23: when mgr.Connect or OpenService fails, currentHwHash returns that
\* error with an empty map and has made no status poll, no sleep, no
\* strategy selection, no category query and no host lookup.
C23_ConnectOrOpenFailure ==
    /\ (lastCall.op = "Connect" /\ lastCall.err) => pc = "failed" /\ retErr = "connect"
    /\ (lastCall.op = "OpenService" /\ lastCall.err) => pc = "failed" /\ retErr = "open"
    /\ (retErr \in {"connect", "open"}) =>
          /\ pc = "failed"
          /\ lastCall.err
          /\ lastCall.op = (IF retErr = "connect" THEN "Connect" ELSE "OpenService")
          /\ hardwareHash = EmptyMap
          /\ numQueries = 0
          /\ numSleeps = 0
          /\ numSelect = 0
          /\ wmiInterface = ""
          /\ CallOrder = << >>
          /\ hostCalls = {}

C23_Witness ==
    /\ pc = "failed"
    /\ retErr = "open"
    /\ lastCall.op = "OpenService"
    /\ hardwareHash = EmptyMap

C23_WitnessConnect ==
    /\ pc = "failed"
    /\ retErr = "connect"

\* C24: one sleep follows every unsuccessful attempt, the fifth included.
\* When the k-th query succeeds k-1 sleeps were made; the timeout is
\* returned after 5 queries and 5 sleeps, 75 seconds of sleep.
C24_SleepAfterEveryFailure ==
    /\ (pc = "query") => numSleeps = numQueries /\ attempt = numQueries + 1
    /\ (pc = "sleep") => numSleeps = numQueries - 1 /\ attempt = numQueries
    /\ (pc \in AfterWait) =>
          /\ numQueries \in 1..5
          /\ attempt = numQueries
          /\ numSleeps = numQueries - 1
    /\ (retErr = "wait") =>
          /\ numQueries = 5
          /\ numSleeps = 5
          /\ numSleeps * serviceRetryInterval = 75
    /\ numSleeps * serviceRetryInterval <= 75

C24_Witness ==
    /\ pc = "failed"
    /\ retErr = "wait"
    /\ numSleeps = 5
    /\ numQueries = 5

C24_WitnessThird ==
    /\ pc = "select"
    /\ numQueries = 3
    /\ numSleeps = 2

\* C25: under WQL a category function returns what getWMIObject returned:
\* a non-empty string exactly when the error is nil; the empty string and
\* an error after a query error or an encoding error; otherwise the
\* base64 of the md5 of the gob stream of the record (the first record
\* returned, or the zero record when none was).
C25_DigestIffNoError ==
    (lastCall.op \in CategorySet /\ wmiInterface = wql) =>
        /\ lastCall.err <=> Stored(lastCall.op) = << >>
        /\ lastCall.err <=> lastCall.res \in {"queryErr", "encErr"}
        /\ (lastCall.res = "ok") =>
              Stored(lastCall.op) = <<"b64", "md5", "gob-typedef", WqlType(lastCall.op), hw>>
        /\ (lastCall.res = "zero") =>
              Stored(lastCall.op) = <<"b64", "md5", "gob-typedef", WqlType(lastCall.op)>>

C25_Witness ==
    /\ lastCall.op = "bios"
    /\ wmiInterface = wql
    /\ lastCall.res = "encErr"
    /\ lastCall.err
    /\ hardwareHash["bios-hash"] = << >>

C25_WitnessOk ==
    /\ lastCall.op = "bios"
    /\ wmiInterface = wql
    /\ lastCall.res = "ok"
    /\ Len(hardwareHash["bios-hash"]) = 5

\* C26: the value under uuid is the digest the selected backend returned
\* for the UUID category, or the empty string when it failed, like the
\* value of every other category; the UUID itself is in no value of the
\* map.
C26_UuidIsDigest ==
    /\ (hardwareID \in DOMAIN hardwareHash) =>
          /\ hardwareHash[hardwareID] \in
                IF wmiInterface = wql
                THEN {<< >>, WqlDigest("uuid", hw), Base64Encode(Md5Sum(GobEncode(ZeroRecord("uuid"))))}
                ELSE {<< >>, WmicDigest("uuid", hw)}
          /\ ("uuid" \in catErr) <=> hardwareHash[hardwareID] = << >>
    /\ (lastCall.op = "uuid" /\ lastCall.res = "ok") =>
          hardwareHash[hardwareID] =
             IF wmiInterface = wql THEN WqlDigest("uuid", hw) ELSE WmicDigest("uuid", hw)
    /\ \A k \in DOMAIN hardwareHash : hardwareHash[k] # <<hw>>

C26_Witness ==
    /\ pc = "done"
    /\ wmiInterface = wql
    /\ "uuid" \notin catErr
    /\ hardwareHash[hardwareID] = WqlDigest("uuid", hw)
    /\ hw = "hwB"

C26_WitnessWmic ==
    /\ pc = "processor"
    /\ wmiInterface = wmic
    /\ hardwareHash[hardwareID] = WmicDigest("uuid", hw)

(***************************************************************************)
(* Properties of the helper ConfigureAgent.                                *)
(***************************************************************************)
\* The sequence of operations called on the manager, with their arguments.
CfgTrace == [n \in 1..Len(cfgCalls) |-> <<cfgCalls[n].op, cfgCalls[n].arg>>]
Configured == \E n \in 1..Len(cfgCalls) : cfgCalls[n].op = "ConfigureAgent"

\* C22: the helper calls manager.ConfigureAgent(folderPath) at most once
\* and only as its third call, after IsConfigAvailable("") answered
\* (false, nil) and IsConfigAvailable(folderPath) answered (true, nil);
\* when the agent is already configured or the folder has no config it
\* returns nil without configuring; an error of a call is returned as it
\* is and that call is the last one.
C22_ConfigureOnlyWhenNeeded ==
    /\ Cardinality({n \in 1..Len(cfgCalls) : cfgCalls[n].op = "ConfigureAgent"}) <= 1
    /\ Configured =>
          /\ CfgTrace = << <<"IsConfigAvailable", << >> >>,
                           <<"IsConfigAvailable", folderPath>>,
                           <<"ConfigureAgent", folderPath>> >>
          /\ ~cfgCalls[1].available /\ cfgCalls[1].err = "nil"
          /\ cfgCalls[2].available /\ cfgCalls[2].err = "nil"
          /\ cfgPc = "returned"
    /\ (cfgPc = "returned") =>
          /\ cfgRet = cfgCalls[Len(cfgCalls)].err
          /\ \A n \in 1..(Len(cfgCalls) - 1) : cfgCalls[n].err = "nil"
          /\ (Len(cfgCalls) = 1 /\ cfgRet = "nil") => cfgCalls[1].available
          /\ (Len(cfgCalls) = 2 /\ cfgRet = "nil") => ~cfgCalls[2].available
    /\ (cfgPc = "checkFolder") =>
          CfgTrace = << <<"IsConfigAvailable", << >> >> >>
    /\ (cfgPc = "configure") =>
          CfgTrace = << <<"IsConfigAvailable", << >> >>, <<"IsConfigAvailable", folderPath>> >>

C22_Witness ==
    /\ cfgPc = "returned"
    /\ Configured
    /\ cfgRet = "err3"
    /\ folderPath = <<"testPath1">>

C22_WitnessSkipped ==
    /\ cfgPc = "returned"
    /\ ~Configured
    /\ Len(cfgCalls) = 2
    /\ cfgRet = "nil"

C22_WitnessError ==
    /\ cfgPc = "returned"
    /\ Len(cfgCalls) = 1
    /\ cfgCalls[1].available
    /\ cfgRet = "err1"


(***************************************************************************)
(* Properties of getPlatformDetails.                                       *)
(***************************************************************************)
SourcesConsulted == [i \in 1..Len(consulted) |-> consulted[i].source]

\* The sources below /etc/centos-release, highest priority first.
SourcePriority ==
    <<"/etc/bottlerocket-release", "/etc/os-release", "/etc/system-release",
      "/etc/redhat-release">>

\* The one source to use when /etc/centos-release gave nothing.
FallbackSource ==
    IF \E i \in 1..4 : SourcePriority[i] \in existing
    THEN SourcePriority[CHOOSE i \in 1..4 :
                            /\ SourcePriority[i] \in existing
                            /\ \A j \in 1..(i - 1) : SourcePriority[j] \notin existing]
    ELSE IF goos = "freebsd" THEN "/usr/bin/uname" ELSE "lsb_release"

CentosYielded ==
    /\ SourcesConsulted = <<"/etc/centos-release">>
    /\ consulted[1].err = "nil"
    /\ osName # <<"NotAvailable">> \/ osVersion # <<"NotAvailable">>

\* C27: getPlatformDetails consults its sources in a fixed priority.  An
\* existing /etc/centos-release is read first; when it yields a name or a
\* version the call returns that result and reads nothing else.  Otherwise
\* exactly one more source is consulted, the first existing one of
\* bottlerocket-release, os-release, system-release and redhat-release, or
\* uname on freebsd, or else lsb_release.  A read error of a source ends the
\* call with that error: no source is consulted after a failed one.
C27_Returned ==
    upc = "returned" =>
        /\ ("/etc/centos-release" \in existing) =
               (consulted # << >> /\ consulted[1].source = "/etc/centos-release")
        /\ \A i \in 1..Len(consulted) :
               consulted[i].err # "nil" => i = Len(consulted)
        /\ osErr = (IF consulted = << >> THEN "nil" ELSE consulted[Len(consulted)].err)
        /\ \/ CentosYielded
           \/ SourcesConsulted = <<"/etc/centos-release">> /\ osErr # "nil"
           \/ SourcesConsulted = <<"/etc/centos-release", FallbackSource>>
           \/ SourcesConsulted = <<FallbackSource>>
C27_YieldReturns ==
    upc = "chain" /\ CentosYielded =>
        /\ upc' = "returned"
        /\ UNCHANGED <<consulted, osName, osVersion, osErr>>
C27_FixedPriority == [](C27_Returned) /\ [][C27_YieldReturns]_vars

\* CentOS answered although /etc/os-release exists as well.
C27_Witness ==
    /\ upc = "returned"
    /\ CentosYielded
    /\ {"/etc/os-release", "/etc/redhat-release"} \subseteq existing

\* centos-release gave nothing, system-release failed, redhat-release exists.
C27_WitnessError ==
    /\ upc = "returned"
    /\ SourcesConsulted = <<"/etc/centos-release", "/etc/system-release">>
    /\ "/etc/redhat-release" \in existing
    /\ osErr # "nil"

\* Nothing but lsb_release is left.
C27_WitnessLsb ==
    /\ upc = "returned"
    /\ SourcesConsulted = <<"lsb_release">>
    /\ osName = <<"Ubuntu">>
    /\ osVersion = <<"22.04">>


(***************************************************************************)
(* Properties of DownloadRemoteResource.                                   *)
(***************************************************************************)
S3Ended == s3pc \in {"returned", "panicked"}

EndsWithSeparator(k) == k # << >> /\ k[Len(k)] = "/"

\* The entries of the list that are files, in the order of the list.
FileEntries == SelectSeq(folders, LAMBDA f : ~EndsWithSeparator(f))

IsPrefixOf(s, t) == Len(s) <= Len(t) /\ s = SubSeq(t, 1, Len(s))

\* A failed listing of a key ending in a separator: its error, no download.
ListingOfFolderFailed ==
    (S3Ended /\ listed = "err" /\ EndsWithSeparator(s3Key)) =>
        /\ s3pc = "returned"
        /\ s3Ret = [err |-> "listErr", resultIsNil |-> TRUE, Files |-> << >>]
        /\ downloads = << >>

\* A successful listing with entries: the file entries are downloaded in
\* the order of the list and nothing else is, and on success every file
\* entry has been downloaded and has one path in result.Files.
ListingDownloaded ==
    (listed = "ok" /\ isDirTypeDownloaded /\ s3pc # "list") =>
        /\ IsPrefixOf(downloads, FileEntries)
        /\ (s3pc = "returned" /\ s3Ret.err = "nil") =>
               /\ downloads = FileEntries
               /\ Len(s3Ret.Files) = Len(downloads)
               /\ ~s3Ret.resultIsNil

\* The statement of C28 as it stands: after a failed listing of a key that
\* does not end in a separator exactly one download, of that key, is
\* attempted.
C28_ExactlyOneDownload ==
    /\ ListingOfFolderFailed
    /\ (S3Ended /\ listed = "err" /\ ~EndsWithSeparator(s3Key)) =>
           downloads = <<s3Key>>
    /\ ListingDownloaded

\* C28: when listing the key fails and the key ends with a path separator
\* the listing error is returned and nothing is downloaded; when the key is
\* not empty and does not end with one, it is treated as a single file: at
\* most one download, of that key, is attempted, and exactly one unless the
\* bucket URL or the unescaped source URL cannot be built, which returns
\* that error with no download.  When listing succeeds with entries, only
\* the entries not ending in a separator are downloaded, in listing order,
\* and on success result.Files holds one path per downloaded entry.
C28_OneDownloadUnlessURLFails ==
    /\ ListingOfFolderFailed
    /\ (S3Ended /\ listed = "err" /\ ~EndsWithSeparator(s3Key) /\ s3Key # << >>) =>
           /\ s3pc = "returned"
           /\ folders = <<s3Key>>
           /\ IF s3Ret.err \in {"bucketURLErr", "unescapeErr"}
              THEN downloads = << >>
              ELSE downloads = <<s3Key>>
    /\ ListingDownloaded

\* The listing of a file key failed and its download went through.
C28_Witness ==
    /\ s3pc = "returned"
    /\ listed = "err"
    /\ s3Key = <<"dir", "/", "a.txt">>
    /\ downloads = <<s3Key>>
    /\ s3Ret.err = "nil"
    /\ Len(s3Ret.Files) = 1

\* The listing of a file key failed and so did the bucket URL.
C28_WitnessNoDownload ==
    /\ s3pc = "returned"
    /\ listed = "err"
    /\ s3Key = <<"a.txt">>
    /\ s3Ret.err = "bucketURLErr"
    /\ downloads = << >>

\* A listing of three entries, two of them files, downloaded in order.
C28_WitnessListing ==
    /\ s3pc = "returned"
    /\ listed = "ok"
    /\ Len(folders) = 3
    /\ Len(downloads) = 2
    /\ s3Ret.err = "nil"
    /\ Len(s3Ret.Files) = 2

\* C29: DownloadRemoteResource returns either a nil error and a result, or
\* an error and a nil result: every call ends by returning one of the two.
C29_ErrorOrResult ==
    S3Ended =>
        /\ s3pc = "returned"
        /\ \/ s3Ret.err = "nil" /\ ~s3Ret.resultIsNil
           \/ s3Ret.err # "nil" /\ s3Ret.resultIsNil /\ s3Ret.Files = << >>

====
